---------------------------- MODULE Spec2Model ----------------------------
(***************************************************************************)
(* A state-machine model of the RAG-reader repository:                     *)
(*   - the chat API of src/src/routes.py (conversation store),             *)
(*   - the Streamlit session of src/app.py (upload, clear, query),         *)
(*   - VectorDB of src/src/vector_db.py (build, persist),                  *)
(*   - RetrievalChain of src/src/retrieval_chain.py (retriever set-up),    *)
(*   - DocumentLoader of src/src/doc_loader.py (ingestion), the citation   *)
(*     formatter of src/src/citation.py and the text helpers of            *)
(*     src/src/utils.py, as the operators the steps above apply.           *)
(*                                                                         *)
(* Python values are modelled as follows.  An Optional[T] is a set with at *)
(* most one element: None is {} and a value v is {v}.  A dict is a         *)
(* function whose domain is its key set.  A str that the code slices or    *)
(* measures is a sequence of one-character strings; a str that the code    *)
(* only stores or compares is a TLA+ string.                               *)
(***************************************************************************)
EXTENDS Integers, Sequences, FiniteSets, TLC

VARIABLES
    conversation_store, \* routes.py: conversation_store, dict id -> list
    apiCall,            \* the last call made on the API and what the chain was handed
    apiResp,            \* the response (or HTTP error) of the last chat request
    apiCalls,           \* number of API calls made so far
    save_log,           \* the save_history calls made so far, in call order
    retrievers,         \* retrieval_chain.py: the retriever objects created, by identity
    chains,             \* the retrieval chains created; each refers to its retriever
    rcCall,             \* the last RetrievalChain call and its outcome
    as_retriever_calls, \* number of calls of vectorstore.as_retriever
    rcCalls,            \* number of RetrievalChain calls made so far
    disk,               \* vector_db.py: the directories on disk and what they hold
    vectorstores,       \* the FAISS vectorstores created or loaded so far
    vdbCall,            \* the last VectorDB call and its outcome
    vdbCalls,           \* number of VectorDB calls made so far
    session_state,      \* app.py: st.session_state (history, vectorstore,
                        \* retrieval_chain, docs_processed)
    uiEvent,            \* the last user event of the session and what it showed
    uiEvents,           \* number of user events so far
    fnCall,             \* the last call of a function without state and its outcome
    fnCalls             \* number of such calls so far

apiVars == <<conversation_store, apiCall, apiResp, apiCalls, save_log>>

rcVars == <<retrievers, chains, rcCall, as_retriever_calls, rcCalls>>

vdbVars == <<disk, vectorstores, vdbCall, vdbCalls>>

uiVars == <<session_state, uiEvent, uiEvents>>

fnVars == <<fnCall, fnCalls>>

vars == <<apiVars, rcVars, vdbVars, uiVars, fnVars>>

--------------------------------------------------------------------------
(* Bounds of the exploration. *)

MaxApiCalls == 3

MaxRcCalls == 2

MaxVdbCalls == 2

MaxUiEvents == 4

MaxFnCalls == 2

--------------------------------------------------------------------------
(* Python helpers. *)

None == {}

Some(v) == {v}

TheValue(opt) == CHOOSE v \in opt : TRUE

\* Truthiness of an Optional[str]: None and "" are falsy.
Falsy(opt) == opt = None \/ opt = Some("")

\* An exception raised by a call, and a value returned by it.
Raise(type, message) ==
    [raised |-> TRUE, error |-> [type |-> type, message |-> message]]

Return(v) == [raised |-> FALSE, value |-> v]

EmptyDict == [key \in {} |-> None]

\* d[key] = v on a dict d.
DictSet(d, key, v) == [x \in DOMAIN d \cup {key} |-> IF x = key THEN v ELSE d[x]]

Range(s) == {s[i] : i \in DOMAIN s}

\* s[:n] for a sequence s.
Take(s, n) == SubSeq(s, 1, IF Len(s) < n THEN Len(s) ELSE n)

--------------------------------------------------------------------------
(* Text.  A str whose characters the code looks at is the sequence of its   *)
(* characters.                                                              *)

UpperCase ==
    <<"A", "B", "C", "D", "E", "F", "G", "H", "I", "J", "K", "L", "M",
      "N", "O", "P", "Q", "R", "S", "T", "U", "V", "W", "X", "Y", "Z">>

LowerCase ==
    <<"a", "b", "c", "d", "e", "f", "g", "h", "i", "j", "k", "l", "m",
      "n", "o", "p", "q", "r", "s", "t", "u", "v", "w", "x", "y", "z">>

LowerChar(c) ==
    IF \E i \in DOMAIN UpperCase : UpperCase[i] = c
    THEN LowerCase[CHOOSE i \in DOMAIN UpperCase : UpperCase[i] = c]
    ELSE c

\* text.lower()
LowerText(text) == [i \in DOMAIN text |-> LowerChar(text[i])]

\* sub in text
Contains(text, sub) ==
    \E i \in 0..(Len(text) - Len(sub)) : SubSeq(text, i + 1, i + Len(sub)) = sub

IsSpace(c) == c \in {" ", "\n", "\t"}

\* re.sub(r'\s+', ' ', text): of a run of white space only the last
\* character stays, as one blank.  Computed over text[lo..hi] by halves.
RECURSIVE CollapseRange(_, _, _)
CollapseRange(text, lo, hi) ==
    IF lo > hi THEN <<>>
    ELSE IF lo = hi
    THEN IF ~IsSpace(text[lo]) THEN <<text[lo]>>
         ELSE IF lo < Len(text) /\ IsSpace(text[lo + 1]) THEN <<>>
         ELSE <<" ">>
    ELSE LET mid == (lo + hi) \div 2
         IN  CollapseRange(text, lo, mid) \o CollapseRange(text, mid + 1, hi)

CollapseSpace(text) == CollapseRange(text, 1, Len(text))

\* text.strip()
RECURSIVE Strip(_)
Strip(text) ==
    IF text = <<>> THEN <<>>
    ELSE IF IsSpace(text[1]) THEN Strip(Tail(text))
    ELSE IF IsSpace(text[Len(text)]) THEN Strip(SubSeq(text, 1, Len(text) - 1))
    ELSE text

\* str.lower() on the tags the model uses.
lower(str) ==
    CASE str = "Research_Article" -> "research_article"
      [] str = "WEB_PAGE" -> "web_page"
      [] str = "General" -> "general"
      [] str = "MEDICAL" -> "medical"
      [] str = ".PDF" -> ".pdf"
      [] str = ".XYZ" -> ".xyz"
      [] OTHER -> str

\* A run of word characters inside a date-bearing value.
Digits(text, n, len) == [kind |-> "digits", text |-> text, n |-> n, len |-> len]

Text(t) == [kind |-> "text", text |-> t]

AnswerOk == <<"o", "k">>

AnswerSaved == <<"a", "2">>

\* An answer in which the model wrote a disclaimer of its own.
AnswerWithDisclaimer ==
    <<"o", "k", ".", " ", "D", "I", "S", "C", "L", "A", "I", "M", "E",
      "R", ":", " ", "a", "s", "k", " ", "a", " ", "d", "o", "c", "t",
      "o", "r", ".">>

NoAnswerGenerated ==
    <<"N", "o", " ", "a", "n", "s", "w", "e", "r", " ", "g", "e", "n",
      "e", "r", "a", "t", "e", "d">>

\* A text of 251 characters with white space in it.
LongText == [i \in 1..251 |-> IF i % 50 = 0 THEN "\n" ELSE "x"]

--------------------------------------------------------------------------
(* Inputs the chat API is driven with. *)

\* ChatRequest.conversation_id: Optional[str] = None (schemas.py).
ConversationIds == {None, Some(""), Some("a"), Some("b")}

Queries == {"q1", "q2"}

\* Retrieved documents: one whose metadata names its source, one without a
\* source, one with a long text.
Doc1 == [page_content |-> <<"a", "b">>, metadata |-> [source |-> "s1"]]

Doc2 == [page_content |-> <<"c">>, metadata |-> [title |-> <<"t2">>]]

Doc3 == [page_content |-> LongText,
         metadata |-> [source |-> "s3", source_type |-> "WEB_PAGE",
                       site_name |-> "site", date |-> <<Digits("2021", 2021, 4)>>]]

\* Eight retrieved documents: more than any cap on the sources cited.
ManyDocs == <<Doc1, Doc2, Doc3, Doc1, Doc2, Doc1, Doc2, Doc1>>

\* What the call retrieval_chain.invoke(...) can do: raise (a service error,
\* a timeout, or the AttributeError of an object without invoke), or return
\* a mapping that may or may not hold "answer", and that holds the retrieved
\* documents under "context" (the key a langchain retrieval chain sets and
\* RetrievalChain.format_response reads), under "context_documents" (the key
\* the callers read), or not at all.
ChainOutcomes ==
    {[raised |-> TRUE, answer |-> None, context |-> None,
      context_documents |-> None]}
    \cup {[raised |-> FALSE, answer |-> Some(AnswerOk), context |-> None,
           context_documents |-> c] :
            c \in {None, Some(<<>>), Some(ManyDocs)}}
    \cup {[raised |-> FALSE, answer |-> None, context |-> None,
           context_documents |-> Some(ManyDocs)]}
    \cup {[raised |-> FALSE, answer |-> Some(AnswerOk), context |-> Some(c),
           context_documents |-> None] :
            c \in {<<>>, ManyDocs}}
    \cup {[raised |-> FALSE, answer |-> Some(AnswerWithDisclaimer),
           context |-> None, context_documents |-> Some(<<>>)]}

--------------------------------------------------------------------------
(* src/src/config.py *)

\* GenericConfig.MAX_SOURCES_TO_CITE, with the environment variable unset.
MAX_SOURCES_TO_CITE == 3

--------------------------------------------------------------------------
(* src/src/utils.py *)

\* ChatUtils.clean_text(text), without custom replacements.
clean_text(text) == Strip(CollapseSpace(text))

TermsDiagnosis ==
    {<<"d", "i", "a", "g", "n", "o", "s">>,
     <<"s", "y", "m", "p", "t", "o", "m">>,
     <<"s", "i", "g", "n", "s", " ", "o", "f">>}

TermsTreatment ==
    {<<"t", "r", "e", "a", "t">>,
     <<"m", "e", "d", "i", "c", "a", "t", "i", "o", "n">>,
     <<"t", "h", "e", "r", "a", "p", "y">>}

\* The texts generate_disclaimer returns.
DisclaimerAdvice ==
    <<"*", "*", "D", "i", "s", "c", "l", "a", "i", "m", "e", "r", "*",
      "*", ":", " ", "T", "h", "i", "s", " ", "i", "n", "f", "o", "r",
      "m", "a", "t", "i", "o", "n", " ", "i", "s", " ", "n", "o", "t",
      " ", "a", " ", "s", "u", "b", "s", "t", "i", "t", "u", "t", "e",
      " ", "f", "o", "r", " ", "p", "r", "o", "f", "e", "s", "s", "i",
      "o", "n", "a", "l", " ", "a", "d", "v", "i", "c", "e", ".", " ",
      "C", "o", "n", "s", "u", "l", "t", " ", "a", " ", "q", "u", "a",
      "l", "i", "f", "i", "e", "d", " ", "p", "r", "o", "v", "i", "d",
      "e", "r", " ", "f", "o", "r", " ", "p", "e", "r", "s", "o", "n",
      "a", "l", " ", "g", "u", "i", "d", "a", "n", "c", "e", ".">>

NoticeOptions ==
    <<"*", "*", "N", "o", "t", "i", "c", "e", "*", "*", ":", " ", "D",
      "i", "s", "c", "u", "s", "s", " ", "a", "l", "l", " ", "o", "p",
      "t", "i", "o", "n", "s", " ", "w", "i", "t", "h", " ", "a", " ",
      "p", "r", "o", "f", "e", "s", "s", "i", "o", "n", "a", "l", ".",
      " ", "I", "n", "d", "i", "v", "i", "d", "u", "a", "l", " ", "r",
      "e", "s", "p", "o", "n", "s", "e", "s", " ", "m", "a", "y", " ",
      "v", "a", "r", "y", ".">>

LegalNotice ==
    <<"*", "*", "L", "e", "g", "a", "l", " ", "N", "o", "t", "i", "c",
      "e", "*", "*", ":", " ", "T", "h", "i", "s", " ", "d", "o", "e",
      "s", " ", "n", "o", "t", " ", "c", "o", "n", "s", "t", "i", "t",
      "u", "t", "e", " ", "l", "e", "g", "a", "l", " ", "a", "d", "v",
      "i", "c", "e", ".", " ", "C", "o", "n", "s", "u", "l", "t", " ",
      "a", "n", " ", "a", "t", "t", "o", "r", "n", "e", "y", " ", "f",
      "o", "r", " ", "y", "o", "u", "r", " ", "s", "p", "e", "c", "i",
      "f", "i", "c", " ", "s", "i", "t", "u", "a", "t", "i", "o", "n",
      ".">>

FinancialDisclaimer ==
    <<"*", "*", "F", "i", "n", "a", "n", "c", "i", "a", "l", " ", "D",
      "i", "s", "c", "l", "a", "i", "m", "e", "r", "*", "*", ":", " ",
      "T", "h", "i", "s", " ", "i", "s", " ", "n", "o", "t", " ", "f",
      "i", "n", "a", "n", "c", "i", "a", "l", " ", "a", "d", "v", "i",
      "c", "e", ".", " ", "C", "o", "n", "s", "u", "l", "t", " ", "a",
      " ", "q", "u", "a", "l", "i", "f", "i", "e", "d", " ", "f", "i",
      "n", "a", "n", "c", "i", "a", "l", " ", "a", "d", "v", "i", "s",
      "o", "r", " ", "b", "e", "f", "o", "r", "e", " ", "m", "a", "k",
      "i", "n", "g", " ", "d", "e", "c", "i", "s", "i", "o", "n", "s",
      ".">>

GeneralDisclaimer ==
    <<"*", "*", "G", "e", "n", "e", "r", "a", "l", " ", "D", "i", "s",
      "c", "l", "a", "i", "m", "e", "r", "*", "*", ":", " ", "T", "h",
      "i", "s", " ", "i", "n", "f", "o", "r", "m", "a", "t", "i", "o",
      "n", " ", "i", "s", " ", "f", "o", "r", " ", "e", "d", "u", "c",
      "a", "t", "i", "o", "n", "a", "l", " ", "p", "u", "r", "p", "o",
      "s", "e", "s", " ", "o", "n", "l", "y", ".", " ", "A", "l", "w",
      "a", "y", "s", " ", "c", "o", "n", "s", "u", "l", "t", " ", "q",
      "u", "a", "l", "i", "f", "i", "e", "d", " ", "p", "r", "o", "f",
      "e", "s", "s", "i", "o", "n", "a", "l", "s", " ", "w", "h", "e",
      "n", " ", "n", "e", "e", "d", "e", "d", ".">>

\* ChatUtils.generate_disclaimer(query, domain)
generate_disclaimer(query, domain) ==
    LET query_lower == LowerText(query)
        d == lower(domain)
    IN  IF d \in {"medical", "health"}
        THEN IF \E term \in TermsDiagnosis : Contains(query_lower, term)
             THEN DisclaimerAdvice
             ELSE IF \E term \in TermsTreatment : Contains(query_lower, term)
             THEN NoticeOptions
             ELSE GeneralDisclaimer
        ELSE IF d \in {"legal", "law"}
        THEN LegalNotice
        ELSE IF d \in {"financial", "investment"}
        THEN FinancialDisclaimer
        ELSE GeneralDisclaimer

\* "disclaimer"
WordDisclaimer ==
    <<"d", "i", "s", "c", "l", "a", "i", "m", "e", "r">>

ResponseTruncated ==
    <<" ", "[", "r", "e", "s", "p", "o", "n", "s", "e", " ", "t", "r",
      "u", "n", "c", "a", "t", "e", "d", "]">>

\* text.rfind(c): the 0-based index of the last c, -1 when there is none.
RFind(text, c) ==
    IF \E i \in DOMAIN text : text[i] = c
    THEN (CHOOSE i \in DOMAIN text :
             text[i] = c /\ \A j \in DOMAIN text : text[j] = c => j <= i) - 1
    ELSE -1

\* ChatUtils.format_response(response, max_length, include_disclaimer, domain)
format_response(response, max_length, include_disclaimer, domain) ==
    LET with_disclaimer ==
            IF include_disclaimer /\ ~Contains(LowerText(response), WordDisclaimer)
            THEN response \o <<"\n", "\n">> \o generate_disclaimer(response, domain)
            ELSE response
    IN  IF Len(with_disclaimer) > max_length
        THEN LET last_period == RFind(Take(with_disclaimer, max_length), ".")
             IN  (IF last_period > 0 THEN Take(with_disclaimer, last_period + 1)
                  ELSE with_disclaimer) \o ResponseTruncated
        ELSE with_disclaimer

\* text.split(): the words of a text, cut at runs of white space.
RECURSIVE SplitAcc(_, _, _)
SplitAcc(text, i, word) ==
    LET done == IF word = <<>> THEN <<>> ELSE <<word>>
    IN  IF i > Len(text) THEN done
        ELSE IF IsSpace(text[i]) THEN done \o SplitAcc(text, i + 1, <<>>)
        ELSE SplitAcc(text, i + 1, Append(word, text[i]))

SplitWords(text) == SplitAcc(text, 1, <<>>)

\* filter_documents_by_relevance(docs, query, min_score) with the default
\* score_field 'score'.  Scores are counted in hundredths (65 is 0.65); the
\* ratio matches / max(1, len(query_terms)) >= min_score is compared after
\* multiplying both sides by the hundredfold of the divisor.
filter_documents_by_relevance(docs, query, min_score) ==
    IF docs = <<>> THEN <<>>
    ELSE IF "score" \in DOMAIN docs[1].metadata
    THEN SelectSeq(docs, LAMBDA doc :
            (IF "score" \in DOMAIN doc.metadata THEN doc.metadata.score
             ELSE 0) >= min_score)
    ELSE
    LET query_terms == Range(SplitWords(LowerText(query)))
        divisor == IF Cardinality(query_terms) < 1 THEN 1
                   ELSE Cardinality(query_terms)
        matches(doc) ==
            Cardinality({term \in query_terms :
                            Contains(LowerText(doc.page_content), term)})
    IN  SelectSeq(docs, LAMBDA doc : matches(doc) * 100 >= min_score * divisor)

\* The attributes class ChatUtils defines.
ChatUtilsAttributes ==
    {"clean_text", "extract_key_terms", "filter_documents_by_relevance",
     "generate_disclaimer", "format_response", "parse_metadata",
     "_parse_date", "log_query", "add_section_headers"}

--------------------------------------------------------------------------
(* src/src/routes.py *)

\* A get_history that reads a conversation while its last turn is half
\* written: the bot entry of the last turn is not there yet.
get_history_torn(s, conversation_id) ==
    IF Falsy(conversation_id) THEN <<>>
    ELSE IF TheValue(conversation_id) \in DOMAIN s
         THEN Take(s[TheValue(conversation_id)],
                   Len(s[TheValue(conversation_id)]) - 1)
         ELSE <<>>

\* get_history(conversation_id), read from store s.
get_history(s, conversation_id) ==
    IF Falsy(conversation_id) THEN <<>>
    ELSE IF TheValue(conversation_id) \in DOMAIN s
         THEN s[TheValue(conversation_id)]
         ELSE <<>>

\* A store whose conversations all share one list object (as a dict built
\* with one default list would): an append under one id shows under all.
save_history_shared(s, conversation_id, query, answer) ==
    IF Falsy(conversation_id) THEN s
    ELSE [k \in DOMAIN s \cup {TheValue(conversation_id)} |->
            (IF k \in DOMAIN s THEN s[k] ELSE <<>>)
                \o <<[user |-> query], [bot |-> answer]>>]

\* A save_history that replaces the stored list instead of extending it.
save_history_overwrite(s, conversation_id, query, answer) ==
    IF Falsy(conversation_id) THEN s
    ELSE [k \in DOMAIN s \cup {TheValue(conversation_id)} |->
            IF k = TheValue(conversation_id)
            THEN <<[user |-> query], [bot |-> answer]>>
            ELSE s[k]]

\* save_history(conversation_id, query, answer): the store after the call.
save_history(s, conversation_id, query, answer) ==
    IF Falsy(conversation_id) THEN s
    ELSE LET id == TheValue(conversation_id)
             old == IF id \in DOMAIN s THEN s[id] ELSE <<>>
         IN [k \in DOMAIN s \cup {id} |->
                IF k = id
                THEN old \o <<[user |-> query], [bot |-> answer]>>
                ELSE s[k]]

\* ChatUtils.generate_conversation_id(): an attribute lookup on ChatUtils
\* followed by a call.  A missing attribute raises AttributeError.
generate_conversation_id ==
    IF "generate_conversation_id" \in ChatUtilsAttributes
    THEN [raised |-> FALSE, value |-> Some("new")]
    ELSE [raised |-> TRUE, value |-> None]

HTTPException(detail) == [status |-> 500, detail |-> detail]

\* chat_endpoint(request) with the chain call's outcome `chain`: the store
\* after the request, the response, the history handed to the chain and the
\* save_history calls the handler made.
chat_endpoint(s, request, chain) ==
    LET history == get_history(s, request.conversation_id)
        failed(detail) ==
            [store |-> s, response |-> HTTPException(detail),
             history |-> history, saves |-> <<>>]
    IN  IF chain.raised THEN failed("chain call raised")
        ELSE IF chain.context_documents = None
        THEN failed("KeyError: context_documents")
        ELSE
        LET answer == IF chain.answer = None THEN NoAnswerGenerated
                      ELSE TheValue(chain.answer)
            docs == Take(TheValue(chain.context_documents), 7)
            sources == [i \in 1..Len(docs) |->
                          IF "source" \in DOMAIN docs[i].metadata
                          THEN docs[i].metadata.source ELSE "unknown"]
            evidence == [i \in 1..Len(docs) |->
                          Take(docs[i].page_content, 250) \o <<".", ".", ".">>]
            generated == generate_conversation_id
        IN  IF Falsy(request.conversation_id) /\ generated.raised
            THEN failed("AttributeError: generate_conversation_id")
            ELSE
            LET conversation_id ==
                    IF Falsy(request.conversation_id) THEN generated.value
                    ELSE request.conversation_id
                saved == save_history(s, conversation_id, request.query, answer)
            IN  [store |-> saved,
                 response |-> [status |-> 200,
                               answer |-> answer,
                               sources |-> sources,
                               evidence |-> evidence,
                               conversation_id |-> conversation_id,
                               chat_history |-> get_history(saved, conversation_id)],
                 history |-> history,
                 saves |-> <<[conversation_id |-> conversation_id,
                              query |-> request.query, answer |-> answer]>>]

InitApi ==
    /\ conversation_store = [k \in {} |-> <<>>]
    /\ apiCall = [op |-> "none"]
    /\ apiResp = [status |-> 0]
    /\ apiCalls = 0
    /\ save_log = <<>>

\* POST /chat.  The handler is an async function without an await, so the
\* event loop runs it from its first line to its last before it serves the
\* next request: one request is one step.
ChatRequest ==
    /\ apiCalls < MaxApiCalls
    /\ \E cid \in ConversationIds, q \in Queries, chain \in ChainOutcomes :
         LET out == chat_endpoint(conversation_store,
                                  [query |-> q, conversation_id |-> cid], chain)
         IN  /\ conversation_store' = out.store
             /\ apiResp' = out.response
             /\ apiCall' = [op |-> "chat", conversation_id |-> cid, query |-> q,
                            chain |-> chain, chat_history |-> out.history,
                            saves |-> out.saves]
             /\ save_log' = save_log \o out.saves
    /\ apiCalls' = apiCalls + 1
    /\ UNCHANGED <<rcVars, vdbVars, uiVars, fnVars>>

\* A direct call of save_history(conversation_id, query, answer).
SaveHistory ==
    /\ apiCalls < MaxApiCalls
    /\ \E cid \in ConversationIds, q \in Queries, a \in {AnswerSaved} :
         /\ conversation_store' = save_history(conversation_store, cid, q, a)
         /\ apiCall' = [op |-> "save_history", conversation_id |-> cid,
                        query |-> q, answer |-> a]
         /\ save_log' = save_log \o
                <<[conversation_id |-> cid, query |-> q, answer |-> a]>>
    /\ apiCalls' = apiCalls + 1
    /\ UNCHANGED <<apiResp, rcVars, vdbVars, uiVars, fnVars>>

NextApi == ChatRequest \/ SaveHistory

--------------------------------------------------------------------------
(* src/src/citation.py *)
(* A citation is a str built by concatenation; it is modelled as the        *)
(* sequence of the pieces concatenated.  A title is the sequence of its     *)
(* words (str.split()), an author string the sequence of its comma-         *)
(* separated parts (str.split(",")), a url the sequence of its characters,  *)
(* and a date-bearing value the sequence of its runs of word characters,    *)
(* each run either digits (its text, its value, its length) or other text.  *)

\* metadata.get(key, default)
DictGet(d, key, default) == IF key \in DOMAIN d THEN d[key] ELSE default

\* sep.join(parts), as the pieces concatenated.
RECURSIVE Join(_, _)
Join(parts, sep) ==
    IF parts = <<>> THEN <<>>
    ELSE IF Len(parts) = 1 THEN <<parts[1]>>
    ELSE <<parts[1], sep>> \o Join(Tail(parts), sep)

\* re.search(r"\b(19|20)\d{2}\b", ...) matches a run that is exactly four
\* digits and starts with 19 or 20.
IsYearRun(run) ==
    run.kind = "digits" /\ run.len = 4 /\ run.n >= 1900 /\ run.n <= 2099

\* The first match of the year pattern in one value, "" when there is none.
RECURSIVE FirstYear(_)
FirstYear(runs) ==
    IF runs = <<>> THEN None
    ELSE IF IsYearRun(runs[1]) THEN Some(runs[1].text)
    ELSE FirstYear(Tail(runs))

\* _extract_year(metadata): the first field, in the fixed order, whose value
\* holds a year; None stands for the empty string returned otherwise.
RECURSIVE YearOfFields(_, _)
YearOfFields(metadata, fields) ==
    IF fields = <<>> THEN None
    ELSE IF fields[1] \in DOMAIN metadata /\ FirstYear(metadata[fields[1]]) # None
    THEN FirstYear(metadata[fields[1]])
    ELSE YearOfFields(metadata, Tail(fields))

_extract_year(metadata) ==
    YearOfFields(metadata, <<"year", "publication_date", "date", "publish_date">>)

\* The piece " <year>" a citation gets when a year was found.
YearPiece(metadata) ==
    IF _extract_year(metadata) # None
    THEN <<" ", TheValue(_extract_year(metadata))>>
    ELSE <<>>

\* A Python int held where the code expects a str: the tag "#n" stands for
\* the int n, and a one-element sequence of such a tag for an int held where
\* the model keeps a sequence (a title, an author string, a url).
IntTags == {"#0", "#7"}

IsInt(value) == value \in IntTags

IsIntSeq(value) == value \in {<<"#0">>, <<"#7">>}

\* The truth value of a str or int: "" and 0 are false.
Truthy(value) == value \notin {"", "#0"}

TruthySeq(value) == value \notin {<<>>, <<"#0">>}

\* str(value), as an f-string renders a str or an int.
Str(value) ==
    CASE value = "#0" -> "0"
      [] value = "#7" -> "7"
      [] OTHER -> value

NoSplit == Raise("AttributeError", "'int' object has no attribute 'split'")

NoLower == Raise("AttributeError", "'int' object has no attribute 'lower'")

NoLen == Raise("TypeError", "object of type 'int' has no len()")

\* _shorten_title(title, max_words) for a str
_shorten_title(title, max_words) ==
    IF Len(title) > max_words
    THEN Join(Take(title, max_words), " ") \o <<"...">>
    ELSE Join(title, " ")

\* _shorten_url(url, max_length) for a str
_shorten_url(url, max_length) ==
    IF Len(url) > max_length THEN Take(url, max_length) \o <<"...">> ELSE url

_format_guideline_citation(metadata) ==
    LET organization == DictGet(metadata, "organization", "Official Source")
        title == DictGet(metadata, "title", <<>>)
        version == DictGet(metadata, "version", "")
        report_number == DictGet(metadata, "report_number", "")
    IN  IF TruthySeq(title) /\ IsIntSeq(title) THEN NoSplit
        ELSE Return(
            <<"[", Str(organization)>>
            \o (IF TruthySeq(title) THEN <<" ">> \o _shorten_title(title, 5) ELSE <<>>)
            \o (IF Truthy(report_number) THEN <<" ", Str(report_number)>> ELSE <<>>)
            \o (IF Truthy(version) THEN <<" v", Str(version)>> ELSE <<>>)
            \o YearPiece(metadata)
            \o <<"]">>)

_format_research_citation(metadata) ==
    LET authors == DictGet(metadata, "authors", <<>>)
        journal == DictGet(metadata, "journal", "")
        title == DictGet(metadata, "title", <<>>)
        doi == DictGet(metadata, "doi", "")
        url == DictGet(metadata, "url", <<>>)
        author_list == IF TruthySeq(authors) THEN authors ELSE <<>>
        authors_str == IF Len(author_list) > 2 THEN <<author_list[1], " et al.">>
                       ELSE IF author_list # <<>> THEN Join(author_list, " & ")
                       ELSE <<"Anonymous">>
    IN  IF TruthySeq(authors) /\ IsIntSeq(authors) THEN NoSplit
        ELSE IF TruthySeq(title) /\ IsIntSeq(title) THEN NoSplit
        ELSE IF ~Truthy(doi) /\ TruthySeq(url) /\ IsIntSeq(url) THEN NoLen
        ELSE Return(
            <<"[">> \o authors_str
            \o (IF TruthySeq(title)
                THEN <<" '">> \o _shorten_title(title, 6) \o <<"'">> ELSE <<>>)
            \o (IF Truthy(journal) THEN <<", ", Str(journal)>> ELSE <<>>)
            \o YearPiece(metadata)
            \o (IF Truthy(doi) THEN <<" DOI:", Str(doi)>>
                ELSE IF TruthySeq(url) THEN <<" URL:">> \o _shorten_url(url, 30)
                ELSE <<>>)
            \o <<"]">>)

_format_educational_citation(metadata) ==
    LET publisher == DictGet(metadata, "publisher", "Educational Material")
        title == DictGet(metadata, "title", <<>>)
    IN  IF TruthySeq(title) /\ IsIntSeq(title) THEN NoSplit
        ELSE Return(
            <<"[", Str(publisher)>>
            \o (IF TruthySeq(title) THEN <<" ">> \o _shorten_title(title, 5) ELSE <<>>)
            \o YearPiece(metadata)
            \o <<"]">>)

_format_web_citation(metadata) ==
    LET site_name == DictGet(metadata, "site_name", "Website")
        page_title == DictGet(metadata, "page_title", <<>>)
        url == DictGet(metadata, "url", <<>>)
        access_date == DictGet(metadata, "access_date", "")
    IN  IF TruthySeq(page_title) /\ IsIntSeq(page_title) THEN NoSplit
        ELSE IF TruthySeq(url) /\ IsIntSeq(url) THEN NoLen
        ELSE Return(
            <<"[", Str(site_name)>>
            \o (IF TruthySeq(page_title)
                THEN <<" '">> \o _shorten_title(page_title, 5) \o <<"'">> ELSE <<>>)
            \o YearPiece(metadata)
            \o (IF TruthySeq(url) THEN <<" URL:">> \o _shorten_url(url, 30) ELSE <<>>)
            \o (IF Truthy(access_date)
                THEN <<" (accessed ", Str(access_date), ")">> ELSE <<>>)
            \o <<"]">>)

_format_default_citation(metadata) ==
    LET source == DictGet(metadata, "source", "Source")
        title == DictGet(metadata, "title", <<>>)
    IN  IF TruthySeq(title) /\ IsIntSeq(title) THEN NoSplit
        ELSE Return(
            <<"[", source>>
            \o (IF TruthySeq(title) THEN <<" ">> \o _shorten_title(title, 5) ELSE <<>>)
            \o YearPiece(metadata)
            \o <<"]">>)

\* GenericCitationFormatter.format_citation(doc_metadata): the citation
\* returned or the exception raised.
format_citation(doc_metadata) ==
    IF IsInt(DictGet(doc_metadata, "source_type", "")) THEN NoLower
    ELSE
    LET source_type == lower(DictGet(doc_metadata, "source_type", ""))
    IN  CASE source_type = "official_guideline" ->
                _format_guideline_citation(doc_metadata)
          [] source_type = "research_article" ->
                _format_research_citation(doc_metadata)
          [] source_type = "educational_material" ->
                _format_educational_citation(doc_metadata)
          [] source_type = "web_page" -> _format_web_citation(doc_metadata)
          [] OTHER -> _format_default_citation(doc_metadata)

--------------------------------------------------------------------------
(* src/src/retrieval_chain.py *)

\* Inputs of get_retriever and create_retrieval_chain.  A score_threshold is
\* given in hundredths.
SearchTypes ==
    {"similarity", "mmr", "similarity_score_threshold", "invalid", "MMR"}

KValues == {3, 7}

ScoreThresholds == {None, Some(0)}

FilterCriteria == {None, Some(EmptyDict), Some([domain |-> "medical"])}

FetchKValues == {None, Some(2), Some(10)}

MaxDocsValues == {2, 7, 12}

valid_search_types == <<"similarity", "mmr", "similarity_score_threshold">>

\* vectorstore.as_retriever(search_type=..., search_kwargs=...).
as_retriever(vectorstore, search_type, search_kwargs) ==
    [vectorstore |-> vectorstore,
     search_type |-> search_type,
     search_kwargs |-> search_kwargs]

\* A get_retriever without the score_threshold check.
get_retriever_unchecked(vectorstore, k, search_type, score_threshold, filter_criteria, fetch_k) ==
    IF search_type \notin Range(valid_search_types)
    THEN Raise("ValueError",
               [text |-> "Invalid search_type. Must be one of: ",
                listed |-> valid_search_types])
    ELSE Return(as_retriever(vectorstore, search_type, [kw \in {"k"} |-> k]))

\* A get_retriever that accepts every search_type and always builds an mmr
\* retriever.
get_retriever_any(vectorstore, k, search_type, score_threshold, filter_criteria, fetch_k) ==
    IF search_type = "similarity_score_threshold" /\ score_threshold = None
    THEN Raise("ValueError",
               [text |-> "score_threshold is required for similarity_score_threshold",
                listed |-> <<>>])
    ELSE Return(as_retriever(vectorstore, "mmr", [kw \in {"k"} |-> k]))

\* RetrievalChain.get_retriever(vectorstore, k, search_type, score_threshold,
\* filter_criteria, fetch_k): the exception raised or the retriever returned.
\* vectorstore.as_retriever is called exactly when a retriever is returned.
get_retriever(vectorstore, k, search_type, score_threshold, filter_criteria, fetch_k) ==
    IF search_type \notin Range(valid_search_types)
    THEN Raise("ValueError",
               [text |-> "Invalid search_type. Must be one of: ",
                listed |-> valid_search_types])
    ELSE IF search_type = "similarity_score_threshold" /\ score_threshold = None
    THEN Raise("ValueError",
               [text |-> "score_threshold is required for similarity_score_threshold",
                listed |-> <<>>])
    ELSE
    LET kw0 == [kw \in {"k"} |-> k]
        kw1 == IF score_threshold # None
               THEN DictSet(kw0, "score_threshold", TheValue(score_threshold))
               ELSE kw0
        kw2 == IF filter_criteria # None /\ TheValue(filter_criteria) # EmptyDict
               THEN DictSet(kw1, "filter", TheValue(filter_criteria))
               ELSE kw1
        kw3 == IF fetch_k # None /\ search_type = "mmr"
               THEN DictSet(kw2, "fetch_k", TheValue(fetch_k))
               ELSE kw2
    IN  Return(as_retriever(vectorstore, search_type, kw3))

\* hasattr(retriever, 'search_kwargs')
HasSearchKwargs(retriever) == "search_kwargs" \in DOMAIN retriever

\* A create_retrieval_chain that builds the chain's retriever anew from
\* max_docs alone.
RetrieverRebuilt(retriever, max_docs) ==
    IF HasSearchKwargs(retriever)
    THEN [retriever EXCEPT !.search_kwargs = [kw \in {"k"} |-> max_docs]]
    ELSE retriever

\* The retriever as create_retrieval_chain(retriever, max_docs) leaves it:
\* search_kwargs["k"] is assigned in place.
RetrieverInChain(retriever, max_docs) ==
    IF HasSearchKwargs(retriever)
    THEN [retriever EXCEPT !.search_kwargs = DictSet(@, "k", max_docs)]
    ELSE retriever

\* RetrievalChain.format_response(result, metadata_fields=None,
\* content_excerpt_length, include_full_context): the answer and, for each
\* document under "context", its excerpt and the default metadata fields.
RetrievalChain_format_response(result, content_excerpt_length, include_full_context) ==
    LET response == IF result.answer = None THEN <<>> ELSE TheValue(result.answer)
        context == IF result.context = None THEN <<>> ELSE TheValue(result.context)
        fields_to_extract == {"source", "author", "year", "institution", "title"}
        source_info(doc) ==
            [field \in fields_to_extract \cup {"content_excerpt"} |->
                IF field = "content_excerpt"
                THEN Take(doc.page_content, content_excerpt_length)
                     \o (IF Len(doc.page_content) > content_excerpt_length
                         THEN <<".", ".", ".">> ELSE <<>>)
                ELSE DictGet(doc.metadata, field, "")]
        output == [answer |-> response,
                   sources |-> [i \in DOMAIN context |-> source_info(context[i])]]
    IN  IF include_full_context
        THEN [answer |-> output.answer, sources |-> output.sources,
              context_documents |-> context]
        ELSE output

InitRc ==
    /\ retrievers = <<>>
    /\ chains = <<>>
    /\ rcCall = [op |-> "none"]
    /\ as_retriever_calls = 0
    /\ rcCalls = 0

\* A call of get_retriever on some vectorstore.
GetRetriever ==
    /\ rcCalls < MaxRcCalls
    /\ \E k \in KValues, search_type \in SearchTypes,
          score_threshold \in ScoreThresholds,
          filter_criteria \in FilterCriteria, fetch_k \in FetchKValues :
         LET out == get_retriever("vs", k, search_type, score_threshold,
                                  filter_criteria, fetch_k)
         IN  /\ rcCall' = [op |-> "get_retriever", k |-> k,
                           search_type |-> search_type,
                           score_threshold |-> score_threshold,
                           filter_criteria |-> filter_criteria,
                           fetch_k |-> fetch_k, out |-> out]
             /\ retrievers' = IF out.raised THEN retrievers
                              ELSE Append(retrievers, out.value)
             /\ as_retriever_calls' = IF out.raised THEN as_retriever_calls
                                      ELSE as_retriever_calls + 1
    /\ rcCalls' = rcCalls + 1
    /\ UNCHANGED <<chains, apiVars, vdbVars, uiVars, fnVars>>

\* A retriever object that did not come from get_retriever: one with empty
\* search parameters (as in the unit test) or with none at all.
ForeignRetriever ==
    /\ rcCalls < MaxRcCalls
    /\ \E r \in {[search_type |-> "custom", search_kwargs |-> EmptyDict],
                 [search_type |-> "custom"]} :
         /\ retrievers' = Append(retrievers, r)
         /\ rcCall' = [op |-> "foreign_retriever"]
    /\ rcCalls' = rcCalls + 1
    /\ UNCHANGED <<chains, as_retriever_calls, apiVars, vdbVars, uiVars, fnVars>>

\* A call of create_retrieval_chain(retriever, max_docs) on a retriever
\* created earlier.  The LLM and prompt parts of the chain do not depend on
\* the arguments modelled here.
CreateRetrievalChain ==
    /\ rcCalls < MaxRcCalls
    /\ \E r \in DOMAIN retrievers, max_docs \in MaxDocsValues :
         /\ retrievers' = [retrievers EXCEPT
                              ![r] = RetrieverInChain(retrievers[r], max_docs)]
         /\ chains' = Append(chains, [retriever |-> r])
         /\ rcCall' = [op |-> "create_retrieval_chain", retriever |-> r,
                       max_docs |-> max_docs]
    /\ rcCalls' = rcCalls + 1
    /\ UNCHANGED <<as_retriever_calls, apiVars, vdbVars, uiVars, fnVars>>

NextRc == GetRetriever \/ ForeignRetriever \/ CreateRetrievalChain

--------------------------------------------------------------------------
(* src/src/vector_db.py *)

\* VectorDB(embedding_model, index_name): the instance __init__ leaves.
VectorDB(embedding_model, index_name) ==
    [embedding_model_name |->
        IF Falsy(embedding_model)
        THEN "sentence-transformers/all-mpnet-base-v2"
        ELSE TheValue(embedding_model),
     index_name |-> IF Falsy(index_name) THEN "faiss_index"
                    ELSE TheValue(index_name),
     metadata_file |-> "metadata.pkl"]

\* The instances the calls are made on.
VdbInstances == {VectorDB(None, None), VectorDB(Some("model-b"), Some("custom"))}

DocumentBatches == {<<>>, <<Doc1>>, <<Doc1, Doc2>>}

SaveDirs == {None, Some(""), Some("d1"), Some("d2")}

\* An existing directory that holds nothing.
EmptyDir == [indexes |-> EmptyDict, metadata |-> None]

\* FAISS.from_documents(documents, embedding): the documents with their
\* vectors, computed by the embedding model, which also embeds the queries.
FAISS_from_documents(documents, embedding) ==
    [documents |-> documents, vectors_of |-> embedding, embeddings |-> embedding]

\* save_vectorstore(vectorstore, save_dir): the disk after the call.
save_vectorstore(self, vectorstore, save_dir, d) ==
    LET dir == IF save_dir \in DOMAIN d THEN d[save_dir] ELSE EmptyDir
        metadata == [embedding_model |-> self.embedding_model_name,
                     document_count |-> Len(vectorstore.documents),
                     index_name |-> self.index_name]
    IN  DictSet(d, save_dir,
                [indexes |-> DictSet(dir.indexes, self.index_name,
                                     [documents |-> vectorstore.documents,
                                      vectors_of |-> vectorstore.vectors_of]),
                 metadata |-> Some(metadata)])

\* A create_from_documents without the check for an empty document list.
create_from_documents_unchecked(self, documents, save_dir, d) ==
    LET vectorstore == FAISS_from_documents(documents, self.embedding_model_name)
    IN  [out |-> Return(vectorstore),
         disk |-> IF Falsy(save_dir) THEN d
                  ELSE save_vectorstore(self, vectorstore, TheValue(save_dir), d)]

\* create_from_documents(documents, save_dir): the outcome and the disk after
\* the call.
create_from_documents(self, documents, save_dir, d) ==
    IF documents = <<>>
    THEN [out |-> Raise("ValueError",
                        "No documents provided for vectorstore creation"),
          disk |-> d]
    ELSE
    LET vectorstore == FAISS_from_documents(documents, self.embedding_model_name)
    IN  [out |-> Return(vectorstore),
         disk |-> IF Falsy(save_dir) THEN d
                  ELSE save_vectorstore(self, vectorstore, TheValue(save_dir), d)]

\* FAISS.load_local(folder_path, embeddings, index_name): the deserializer.
\* It reads the index files named after index_name and fails when the
\* folder has none.
FAISS_load_local(folder_path, embeddings, index_name, d) ==
    IF folder_path \notin DOMAIN d
       \/ index_name \notin DOMAIN d[folder_path].indexes
    THEN Raise("RuntimeError", "FAISS.load_local: no such index file")
    ELSE Return([documents |-> d[folder_path].indexes[index_name].documents,
                 vectors_of |-> d[folder_path].indexes[index_name].vectors_of,
                 embeddings |-> embeddings])

\* A load_vectorstore without the check that the directory exists.
load_vectorstore_unchecked(self, load_dir, d) ==
    [out |-> FAISS_load_local(load_dir, self.embedding_model_name,
                              self.index_name, d),
     load_local |-> <<[folder_path |-> load_dir,
                       index_name |-> self.index_name]>>]

\* load_vectorstore(load_dir): the outcome, and the calls of the
\* deserializer it made.
load_vectorstore(self, load_dir, d) ==
    IF load_dir \notin DOMAIN d
    THEN [out |-> Raise("FileNotFoundError", "Vectorstore directory not found"),
          load_local |-> <<>>]
    ELSE [out |-> FAISS_load_local(load_dir, self.embedding_model_name,
                                   self.index_name, d),
          load_local |-> <<[folder_path |-> load_dir,
                            index_name |-> self.index_name]>>]

InitVdb ==
    /\ disk = [dir \in {"d0"} |-> EmptyDir]
    /\ vectorstores = <<>>
    /\ vdbCall = [op |-> "none"]
    /\ vdbCalls = 0

\* A call of create_from_documents.
CreateFromDocuments ==
    /\ vdbCalls < MaxVdbCalls
    /\ \E self \in VdbInstances, documents \in DocumentBatches,
          save_dir \in SaveDirs :
         LET r == create_from_documents(self, documents, save_dir, disk)
         IN  /\ disk' = r.disk
             /\ vectorstores' = IF r.out.raised THEN vectorstores
                                ELSE Append(vectorstores, r.out.value)
             /\ vdbCall' = [op |-> "create_from_documents", self |-> self,
                            documents |-> documents, save_dir |-> save_dir,
                            out |-> r.out]
    /\ vdbCalls' = vdbCalls + 1
    /\ UNCHANGED <<apiVars, rcVars, uiVars, fnVars>>

\* A call of save_vectorstore on a vectorstore created or loaded earlier.
SaveVectorstore ==
    /\ vdbCalls < MaxVdbCalls
    /\ \E self \in VdbInstances, v \in DOMAIN vectorstores,
          save_dir \in {"d1", "d2"} :
         /\ disk' = save_vectorstore(self, vectorstores[v], save_dir, disk)
         /\ vdbCall' = [op |-> "save_vectorstore", self |-> self,
                        vectorstore |-> v, save_dir |-> save_dir]
    /\ vdbCalls' = vdbCalls + 1
    /\ UNCHANGED <<vectorstores, apiVars, rcVars, uiVars, fnVars>>

\* A call of load_vectorstore.
LoadVectorstore ==
    /\ vdbCalls < MaxVdbCalls
    /\ \E self \in VdbInstances, load_dir \in {"d0", "d1", "d2"} :
         LET r == load_vectorstore(self, load_dir, disk)
         IN  /\ vectorstores' = IF r.out.raised THEN vectorstores
                                ELSE Append(vectorstores, r.out.value)
             /\ vdbCall' = [op |-> "load_vectorstore", self |-> self,
                            load_dir |-> load_dir,
                            existed |-> load_dir \in DOMAIN disk,
                            out |-> r.out, load_local |-> r.load_local]
    /\ vdbCalls' = vdbCalls + 1
    /\ UNCHANGED <<disk, apiVars, rcVars, uiVars, fnVars>>

NextVdb == CreateFromDocuments \/ SaveVectorstore \/ LoadVectorstore

--------------------------------------------------------------------------
(* src/src/doc_loader.py *)
(* A path is a record of its directory, stem and extension.  The file       *)
(* system maps a path to what the file holds: whether the format's loader   *)
(* can read it, the texts it loads (pages of a PDF, rows of a CSV, records  *)
(* of a JSON file, the one text of a text or Word file) and, for a PDF, the *)
(* document information PyMuPDF reports.                                    *)

\* os.path.splitext(file_path)[1]
splitext_ext(file_path) == file_path.ext

\* text.split('\n')
RECURSIVE SplitLines(_)
SplitLines(text) ==
    IF \E i \in DOMAIN text : text[i] = "\n"
    THEN LET i == CHOOSE j \in DOMAIN text :
                    text[j] = "\n" /\ \A m \in 1..(j - 1) : text[m] # "\n"
         IN  <<SubSeq(text, 1, i - 1)>> \o SplitLines(SubSeq(text, i + 1, Len(text)))
    ELSE <<text>>

\* line.isupper(): some cased character, and no lower-case one.
isupper(line) ==
    /\ \E i \in DOMAIN line : line[i] \in Range(UpperCase)
    /\ \A i \in DOMAIN line : line[i] \notin Range(LowerCase)

\* line.endswith(':')
EndsWithColon(line) == line # <<>> /\ line[Len(line)] = ":"

HeaderWords ==
    {<<"s", "e", "c", "t", "i", "o", "n">>,
     <<"c", "h", "a", "p", "t", "e", "r">>,
     <<"h", "e", "a", "d", "i", "n", "g">>}

\* The first of `lines` that looks like a header, "" when none does.
RECURSIVE FirstHeader(_)
FirstHeader(lines) ==
    IF lines = <<>> THEN <<>>
    ELSE LET line == Strip(lines[1])
         IN  IF \/ isupper(line)
                \/ EndsWithColon(line)
                \/ \E word \in HeaderWords : Contains(LowerText(line), word)
             THEN line
             ELSE FirstHeader(Tail(lines))

\* DocumentLoader._extract_section_header(text)
_extract_section_header(text) == FirstHeader(Take(SplitLines(text), 3))

\* self.text_splitter.split_documents(docs) for documents no longer than
\* the chunk size of 1000 characters: such a text is one chunk, stripped of surrounding white space,
\* and a text that is blank gives no chunk.  Each chunk carries the metadata
\* of its document.
RECURSIVE split_documents(_)
split_documents(docs) ==
    IF docs = <<>> THEN <<>>
    ELSE (IF Strip(docs[1].page_content) = <<>> THEN <<>>
          ELSE <<[page_content |-> Strip(docs[1].page_content),
                  metadata |-> docs[1].metadata]>>)
         \o split_documents(Tail(docs))

\* dict.update
DictUpdate(d, e) ==
    [key \in DOMAIN d \cup DOMAIN e |-> IF key \in DOMAIN e THEN e[key] ELSE d[key]]

\* What a langchain loader returns for a readable file: one document per
\* text, whose metadata names the file and the position of the text in it.
LoaderLoad(file_path, fs, position) ==
    [i \in DOMAIN fs[file_path].texts |->
        [page_content |-> fs[file_path].texts[i],
         metadata |-> IF position = None
                      THEN [source |-> file_path]
                      ELSE DictSet([source |-> file_path], TheValue(position), i - 1)]]

\* load_pdf(file_path): the chunks, [] when the file cannot be read.
load_pdf(file_path, fs) ==
    IF ~fs[file_path].readable THEN Return(<<>>)
    ELSE
    LET info == fs[file_path].info
        pdf_metadata == [title |-> DictGet(info, "title", <<>>),
                         author |-> DictGet(info, "author", ""),
                         publication_date |-> DictGet(info, "creationDate", <<>>),
                         keywords |-> DictGet(info, "keywords", ""),
                         source_type |-> "pdf",
                         file_path |-> file_path]
        loaded == LoaderLoad(file_path, fs, Some("page"))
        pages == [i \in DOMAIN loaded |->
                    [page_content |-> loaded[i].page_content,
                     metadata |->
                        LET m == DictUpdate(loaded[i].metadata, pdf_metadata)
                        IN  IF "page" \in DOMAIN m
                            THEN DictSet(m, "section",
                                         _extract_section_header(loaded[i].page_content))
                            ELSE m]]
    IN  Return(split_documents(pages))

\* load_json(json_path, jq_schema): JSONLoader keeps its own metadata.
load_json(json_path, jq_schema, fs) ==
    IF ~fs[json_path].readable THEN Return(<<>>)
    ELSE Return(split_documents(LoaderLoad(json_path, fs, Some("seq_num"))))

\* The common shape of load_word_document, load_text_file and load_csv.
LoadTagged(file_path, fs, position, source_type) ==
    IF ~fs[file_path].readable THEN Return(<<>>)
    ELSE
    LET loaded == LoaderLoad(file_path, fs, position)
        docs == [i \in DOMAIN loaded |->
                   [page_content |-> loaded[i].page_content,
                    metadata |-> DictUpdate(loaded[i].metadata,
                                            [source_type |-> source_type,
                                             file_path |-> file_path])]]
    IN  Return(split_documents(docs))

load_word_document(file_path, fs) == LoadTagged(file_path, fs, None, "word_document")

load_text_file(file_path, fs) == LoadTagged(file_path, fs, None, "text_file")

load_csv(file_path, fs) == LoadTagged(file_path, fs, Some("row"), "csv_file")

\* load_document(file_path): the chunks returned or the exception raised.
load_document(file_path, fs) ==
    LET file_ext == lower(splitext_ext(file_path))
    IN  IF file_ext = ".pdf" THEN load_pdf(file_path, fs)
        ELSE IF file_ext = ".json" THEN load_json(file_path, None, fs)
        ELSE IF file_ext \in {".doc", ".docx"} THEN load_word_document(file_path, fs)
        ELSE IF file_ext = ".txt" THEN load_text_file(file_path, fs)
        ELSE IF file_ext = ".csv" THEN load_csv(file_path, fs)
        ELSE Raise("ValueError", <<"Unsupported file type: ", file_ext>>)

--------------------------------------------------------------------------
(* src/app.py *)
(* Streamlit runs the script once per user event; one run is one step.      *)

\* An uploaded file: its name and what it holds.
UploadedFile(stem, ext, readable, texts, info) ==
    [name |-> [stem |-> stem, ext |-> ext],
     data |-> [readable |-> readable, texts |-> texts, info |-> info]]

NotesTxt == UploadedFile("notes", ".txt", TRUE, <<<<" ", "n", "o", "t", "e", " ", "o", "n", "e", "\n">>>>, EmptyDict)

NotesTxt2 == UploadedFile("notes", ".txt", TRUE, <<<<"n", "o", "t", "e", " ", "t", "w", "o">>>>, EmptyDict)

BlankTxt == UploadedFile("blank", ".txt", TRUE, <<<<" ", "\n">>>>, EmptyDict)

PaperPdf ==
    UploadedFile("paper", ".PDF", TRUE,
                 <<<<"I", "N", "T", "R", "O", "\n", "a", "b">>,
                   <<"c", "d">>>>,
                 [title |-> <<"A", "Paper">>,
                  creationDate |-> <<Text("D"), Digits("20240101", 20240101, 8)>>])

CorruptPdf == UploadedFile("corrupt", ".pdf", FALSE, <<>>, EmptyDict)

RowsCsv == UploadedFile("rows", ".csv", TRUE, <<<<"a", ":", " ", "1">>, <<"a", ":", " ", "2">>>>, EmptyDict)

DataJson == UploadedFile("data", ".json", TRUE, <<<<"{", "}">>>>, EmptyDict)

MemoDocx == UploadedFile("memo", ".docx", TRUE, <<<<"m", "e", "m", "o">>>>, EmptyDict)

ArchiveXyz == UploadedFile("archive", ".XYZ", TRUE, <<<<" ", "n", "o", "t", "e", " ", "o", "n", "e", "\n">>>>, EmptyDict)

\* The selections of the file uploader that Process Documents is run with.
\* The type list of the uploader is applied by the widget in the browser;
\* load_document is handed whatever path the run wrote.
UploadedFiles ==
    {<<>>,
     <<NotesTxt>>,
     <<CorruptPdf>>,
     <<BlankTxt>>,
     <<NotesTxt, CorruptPdf>>,
     <<CorruptPdf, PaperPdf>>,
     <<NotesTxt, NotesTxt2>>,
     <<RowsCsv, DataJson>>,
     <<MemoDocx, ArchiveXyz>>,
     <<ArchiveXyz, NotesTxt>>}

\* What can go wrong outside this repository's code while the index is
\* built: loading the embedding model (VectorDB()) or setting up the LLM
\* client (RetrievalChain()).
BuildOutcomes == {"ok", "embedding model error", "llm client error"}

\* os.path.join(temp_dir, file.name)
TempPath(file) == [dir |-> "tmp", stem |-> file.name.stem, ext |-> file.name.ext]

\* The paths written for the uploaded files, in upload order.
temp_paths(uploaded_files) ==
    [i \in DOMAIN uploaded_files |-> TempPath(uploaded_files[i])]

\* The temporary directory after every file was written: a later file
\* replaces an earlier one of the same name.
TempDir(uploaded_files) ==
    [path \in Range(temp_paths(uploaded_files)) |->
        LET last == CHOOSE i \in DOMAIN uploaded_files :
                       /\ TempPath(uploaded_files[i]) = path
                       /\ \A j \in DOMAIN uploaded_files :
                            TempPath(uploaded_files[j]) = path => j <= i
        IN  uploaded_files[last].data]

\* The loop documents.extend(loader.load_document(path)): the chunks of all
\* paths, or the first exception a load_document raised.
RECURSIVE LoadAll(_, _)
LoadAll(paths, fs) ==
    IF paths = <<>> THEN Return(<<>>)
    ELSE LET first == load_document(paths[1], fs)
         IN  IF first.raised THEN first
             ELSE LET rest == LoadAll(Tail(paths), fs)
                  IN  IF rest.raised THEN rest
                      ELSE Return(first.value \o rest.value)

\* A Process Documents body whose chain retrieves from an index of its own,
\* built without the documents of the last file.
BuildIndexUnbound(uploaded_files, build, d) ==
    LET documents == LoadAll(temp_paths(uploaded_files), TempDir(uploaded_files))
    IN  IF documents.raised THEN documents
        ELSE IF build = "embedding model error" THEN Raise("Exception", build)
        ELSE
        LET created == create_from_documents(VectorDB(None, None),
                                             documents.value, None, d)
        IN  IF created.out.raised THEN created.out
            ELSE IF build = "llm client error" THEN Raise("Exception", build)
            ELSE
            LET retriever == get_retriever(
                                FAISS_from_documents(<<>>, "none"), 7, "mmr",
                                None, None, None)
            IN  IF retriever.raised THEN retriever
                ELSE Return([vectorstore |-> created.out.value,
                             retrieval_chain |->
                                [retriever |-> RetrieverInChain(retriever.value, 7)]])

\* The body of the try block of Process Documents: the exception raised, or
\* the vectorstore and the retrieval chain built.
BuildIndex(uploaded_files, build, d) ==
    LET documents == LoadAll(temp_paths(uploaded_files), TempDir(uploaded_files))
    IN  IF documents.raised THEN documents
        ELSE IF build = "embedding model error" THEN Raise("Exception", build)
        ELSE
        LET created == create_from_documents(VectorDB(None, None),
                                             documents.value, None, d)
        IN  IF created.out.raised THEN created.out
            ELSE IF build = "llm client error" THEN Raise("Exception", build)
            ELSE
            LET retriever == get_retriever(created.out.value, 7, "mmr",
                                           None, None, None)
            IN  IF retriever.raised THEN retriever
                ELSE Return([vectorstore |-> created.out.value,
                             retrieval_chain |->
                                [retriever |-> RetrieverInChain(retriever.value, 7)]])

WarningUploadFirst ==
    <<"Please upload and process documents first.">>

NoAnswer ==
    <<"N", "o", " ", "a", "n", "s", "w", "e", "r", ".">>

\* The items "- x" of a list, joined by line breaks.
Bullets(items) == Join([i \in DOMAIN items |-> <<"- ", items[i]>>], <<"\n">>)

SourcesHeading ==
    <<"\n", "\n", "S", "o", "u", "r", "c", "e", "s", ":", "\n">>

ExcerptsHeading ==
    <<"\n", "\n", "R", "e", "l", "e", "v", "a", "n", "t", " ", "e", "x",
      "c", "e", "r", "p", "t", "s", ":", "\n">>

\* A generate_response without the test of docs_processed.
generate_response_unguarded(state, query, chain) ==
    IF chain.raised THEN <<"Error: ", "chain call raised">>
    ELSE
    LET answer == IF chain.answer = None THEN NoAnswer ELSE TheValue(chain.answer)
        context_docs == IF chain.context_documents = None THEN <<>>
                        ELSE TheValue(chain.context_documents)
        citations == [i \in DOMAIN context_docs |->
                        format_citation(context_docs[i].metadata)]
        sources == [i \in DOMAIN context_docs |-> citations[i].value]
        excerpts == [i \in DOMAIN context_docs |->
                       LET content == context_docs[i].page_content
                       IN  IF Len(content) > 250
                           THEN clean_text(Take(content, 250) \o <<".", ".", ".">>)
                           ELSE content]
        disclaimer == generate_disclaimer(answer, "general")
    IN  IF \E i \in DOMAIN citations : citations[i].raised
        THEN <<"Error: ", "format_citation raised">>
        ELSE
        <<answer, SourcesHeading>> \o Bullets(Take(sources, 3))
        \o (IF excerpts # <<>>
            THEN <<ExcerptsHeading>> \o Bullets(Take(excerpts, 3))
            ELSE <<>>)
        \o <<<<"\n", "\n">>, disclaimer>>

\* generate_response(query) with the chain call's outcome `chain`: the
\* response text as the sequence of the pieces it is concatenated from, each
\* piece a text or a list item.
generate_response(state, query, chain) ==
    IF ~state.docs_processed THEN WarningUploadFirst
    ELSE IF chain.raised THEN <<"Error: ", "chain call raised">>
    ELSE
    LET answer == IF chain.answer = None THEN NoAnswer ELSE TheValue(chain.answer)
        context_docs == IF chain.context_documents = None THEN <<>>
                        ELSE TheValue(chain.context_documents)
        citations == [i \in DOMAIN context_docs |->
                        format_citation(context_docs[i].metadata)]
        sources == [i \in DOMAIN context_docs |-> citations[i].value]
        excerpts == [i \in DOMAIN context_docs |->
                       LET content == context_docs[i].page_content
                       IN  IF Len(content) > 250
                           THEN clean_text(Take(content, 250) \o <<".", ".", ".">>)
                           ELSE content]
        disclaimer == generate_disclaimer(answer, "general")
    IN  IF \E i \in DOMAIN citations : citations[i].raised
        THEN <<"Error: ", "format_citation raised">>
        ELSE
        <<answer, SourcesHeading>> \o Bullets(Take(sources, 3))
        \o (IF excerpts # <<>>
            THEN <<ExcerptsHeading>> \o Bullets(Take(excerpts, 3))
            ELSE <<>>)
        \o <<<<"\n", "\n">>, disclaimer>>

InitUi ==
    /\ session_state = [history |-> <<>>,
                        vectorstore |-> None,
                        retrieval_chain |-> None,
                        docs_processed |-> FALSE]
    /\ uiEvent = [op |-> "none"]
    /\ uiEvents = 0

\* A Process Documents run that marks the session unprocessed when the
\* build fails.
ProcessDocumentsReset ==
    /\ uiEvents < MaxUiEvents
    /\ \E uploaded_files \in UploadedFiles, build \in BuildOutcomes :
         IF uploaded_files = <<>>
         THEN /\ uiEvent' = [op |-> "process", uploaded_files |-> uploaded_files,
                             build |-> build,
                             shown |-> <<"warning", "Please select at least one file.">>]
              /\ UNCHANGED session_state
         ELSE LET built == BuildIndex(uploaded_files, build, disk)
              IN  IF built.raised
                  THEN /\ uiEvent' = [op |-> "process",
                                      uploaded_files |-> uploaded_files,
                                      build |-> build,
                                      shown |-> <<"error", built.error.message>>]
                       /\ session_state' =
                            [session_state EXCEPT !.docs_processed = FALSE]
                  ELSE /\ session_state' =
                            [session_state EXCEPT
                               !.vectorstore = Some(built.value.vectorstore),
                               !.retrieval_chain = Some(built.value.retrieval_chain),
                               !.docs_processed = TRUE]
                       /\ uiEvent' = [op |-> "process",
                                      uploaded_files |-> uploaded_files,
                                      build |-> build,
                                      shown |-> <<"success", Len(uploaded_files)>>]
    /\ uiEvents' = uiEvents + 1
    /\ UNCHANGED <<apiVars, rcVars, vdbVars, fnVars>>

\* A run with the Process Documents button pressed.
ProcessDocuments ==
    /\ uiEvents < MaxUiEvents
    /\ \E uploaded_files \in UploadedFiles, build \in BuildOutcomes :
         IF uploaded_files = <<>>
         THEN /\ uiEvent' = [op |-> "process", uploaded_files |-> uploaded_files,
                             build |-> build,
                             shown |-> <<"warning", "Please select at least one file.">>]
              /\ UNCHANGED session_state
         ELSE LET built == BuildIndex(uploaded_files, build, disk)
              IN  IF built.raised
                  THEN /\ uiEvent' = [op |-> "process",
                                      uploaded_files |-> uploaded_files,
                                      build |-> build,
                                      shown |-> <<"error", built.error.message>>]
                       /\ UNCHANGED session_state
                  ELSE /\ session_state' =
                            [session_state EXCEPT
                               !.vectorstore = Some(built.value.vectorstore),
                               !.retrieval_chain = Some(built.value.retrieval_chain),
                               !.docs_processed = TRUE]
                       /\ uiEvent' = [op |-> "process",
                                      uploaded_files |-> uploaded_files,
                                      build |-> build,
                                      shown |-> <<"success", Len(uploaded_files)>>]
    /\ uiEvents' = uiEvents + 1
    /\ UNCHANGED <<apiVars, rcVars, vdbVars, fnVars>>

\* A Clear Chat run that forgets the index as well.
ClearChatAll ==
    /\ uiEvents < MaxUiEvents
    /\ session_state' = [session_state EXCEPT !.history = <<>>,
                                              !.docs_processed = FALSE]
    /\ uiEvent' = [op |-> "clear", cleared |-> Len(session_state.history),
                   shown |-> <<"info", "Chat history cleared.">>]
    /\ uiEvents' = uiEvents + 1
    /\ UNCHANGED <<apiVars, rcVars, vdbVars, fnVars>>

\* A run with the Clear Chat button pressed.
ClearChat ==
    /\ uiEvents < MaxUiEvents
    /\ session_state' = [session_state EXCEPT !.history = <<>>]
    /\ uiEvent' = [op |-> "clear", cleared |-> Len(session_state.history),
                   shown |-> <<"info", "Chat history cleared.">>]
    /\ uiEvents' = uiEvents + 1
    /\ UNCHANGED <<apiVars, rcVars, vdbVars, fnVars>>

\* A run with a query submitted in the chat input: generate_response, then
\* the append to the history.  The chain is called only when documents were
\* processed, with the history as it is before the append.
Query ==
    /\ uiEvents < MaxUiEvents
    /\ \E query \in Queries, chain \in ChainOutcomes :
         LET response == generate_response(session_state, query, chain)
         IN  /\ session_state' =
                   [session_state EXCEPT !.history = Append(@, <<query, response>>)]
             /\ uiEvent' =
                   IF session_state.docs_processed
                   THEN [op |-> "query", query |-> query, invoked |-> TRUE,
                         chain |-> chain,
                         chat_history |-> session_state.history]
                   ELSE [op |-> "query", query |-> query, invoked |-> FALSE]
    /\ uiEvents' = uiEvents + 1
    /\ UNCHANGED <<apiVars, rcVars, vdbVars, fnVars>>

NextUi == ProcessDocuments \/ ClearChat \/ Query

--------------------------------------------------------------------------
(* Calls of the functions that keep no state. *)

\* d[key] = value when opt holds a value; d when it holds none.
Put(d, key, opt) == IF opt = None THEN d ELSE DictSet(d, key, TheValue(opt))

\* The research article of the specification's scenario.
ResearchExample ==
    [source_type |-> "research_article",
     authors |-> <<"Smith", " J", " Doe", " A", " Lee", " C">>,
     title |-> <<"Long", "Title", "Exceeding", "Five", "Words", "For", "Sure">>,
     journal |-> "J. Med",
     year |-> <<Digits("2021", 2021, 4)>>,
     doi |-> "10.1/x"]

\* The metadata mappings format_citation is called with: every family, with
\* and without title, authors and year, the values strings or numbers.
MetadataInputs ==
    {Put(Put(Put(Put(EmptyDict, "source_type", source_type), "title", title),
             "authors", authors), "year", year) :
        source_type \in {None, Some(""), Some("official_guideline"),
                         Some("Research_Article"), Some("educational_material"),
                         Some("WEB_PAGE"), Some("pdf"), Some("#7")},
        title \in {None, Some(<<>>), Some(<<"A", "Paper">>),
                   Some(<<"a", "b", "c", "d", "e", "f", "g">>), Some(<<"#7">>)},
        authors \in {None, Some(<<"Smith", " J">>),
                     Some(<<"Smith", " J", " Doe", " A", " Lee", " C">>),
                     Some(<<"#7">>)},
        year \in {None, Some(<<Digits("2021", 2021, 4)>>)}}
    \cup {ResearchExample,
          [source_type |-> "web_page", url |-> <<"#7">>],
          [source_type |-> "web_page", page_title |-> <<"#0">>, url |-> <<"#0">>]}

InitFn ==
    /\ fnCall = [op |-> "none"]
    /\ fnCalls = 0

\* A call of GenericCitationFormatter.format_citation.
FormatCitation ==
    /\ fnCalls < MaxFnCalls
    /\ \E doc_metadata \in MetadataInputs :
         fnCall' = [op |-> "format_citation", doc_metadata |-> doc_metadata,
                    out |-> format_citation(doc_metadata)]
    /\ fnCalls' = fnCalls + 1
    /\ UNCHANGED <<apiVars, rcVars, vdbVars, uiVars>>

NextCite == FormatCitation

\* The chunks the relevance gate is called with: one without a score whose
\* text holds "art" only inside "heart", one with a score of 0.80, one with
\* a score of 0.50.
Chunk1 == [page_content |-> <<"t", "h", "e", " ", "h", "e", "a", "r", "t">>, metadata |-> [source |-> "s1"]]

Chunk2 == [page_content |-> <<"A", "r", "t", " ", "o", "f", " ", "w", "a", "r">>,
           metadata |-> [source |-> "s2", score |-> 80]]

Chunk3 == [page_content |-> <<"f", "i", "n", "e", " ", "a", "r", "t">>,
           metadata |-> [source |-> "s3", score |-> 50]]

\* Every list of distinct chunks.
ChunkLists ==
    LET chunks == {Chunk1, Chunk2, Chunk3}
    IN  {<<>>}
        \cup {<<a>> : a \in chunks}
        \cup {l \in {<<a, b>> : a \in chunks, b \in chunks} : l[1] # l[2]}
        \cup {l \in {<<a, b, c>> : a \in chunks, b \in chunks, c \in chunks} :
                l[1] # l[2] /\ l[1] # l[3] /\ l[2] # l[3]}

GateQueries ==
    {<<"a", "r", "t">>,
     <<"H", "e", "a", "r", "t", " ", "A", "R", "T">>,
     <<"w", "a", "r", " ", "p", "e", "a", "c", "e">>}

\* min_score in hundredths.
MinScores == {0, 50, 65, 100}

\* A call of ChatUtils.filter_documents_by_relevance.
FilterDocuments ==
    /\ fnCalls < MaxFnCalls
    /\ \E docs \in ChunkLists, query \in GateQueries, min_score \in MinScores :
         fnCall' = [op |-> "filter_documents_by_relevance", docs |-> docs,
                    query |-> query, min_score |-> min_score,
                    out |-> filter_documents_by_relevance(docs, query, min_score)]
    /\ fnCalls' = fnCalls + 1
    /\ UNCHANGED <<apiVars, rcVars, vdbVars, uiVars>>

\* The questions and the domains generate_disclaimer is called with.
DisclaimerQueries ==
    {<<"h", "e", "l", "l", "o">>,
     <<"W", "h", "a", "t", " ", "a", "r", "e", " ", "t", "h", "e", " ",
       "S", "y", "m", "p", "t", "o", "m", "s", " ", "o", "f", " ", "f",
       "l", "u">>,
     <<"H", "o", "w", " ", "t", "o", " ", "t", "r", "e", "a", "t", " ",
       "a", " ", "c", "o", "l", "d">>,
     <<"a", "n", "y", " ", "m", "e", "d", "i", "c", "a", "t", "i", "o",
       "n", " ", "a", "n", "d", " ", "s", "i", "g", "n", "s", " ", "o",
       "f", " ", "i", "t">>}

Domains ==
    {"general", "medical", "MEDICAL", "health", "legal", "law", "financial",
     "investment", "cooking"}

\* A call of ChatUtils.generate_disclaimer.
GenerateDisclaimer ==
    /\ fnCalls < MaxFnCalls
    /\ \E query \in DisclaimerQueries, domain \in Domains :
         fnCall' = [op |-> "generate_disclaimer", query |-> query,
                    domain |-> domain,
                    out |-> generate_disclaimer(query, domain)]
    /\ fnCalls' = fnCalls + 1
    /\ UNCHANGED <<apiVars, rcVars, vdbVars, uiVars>>

\* The answers format_response is called with: short ones, one that names
\* symptoms, one of several sentences, one without a full stop.
AnswerSymptoms ==
    <<"C", "o", "m", "m", "o", "n", " ", "s", "y", "m", "p", "t", "o",
      "m", "s", ":", " ", "f", "e", "v", "e", "r", ".">>

AnswerSentences ==
    <<"R", "e", "s", "t", ".", " ", "D", "r", "i", "n", "k", " ", "w",
      "a", "t", "e", "r", ".", " ", "S", "l", "e", "e", "p", " ", "w",
      "e", "l", "l", ".">>

AnswerNoStop ==
    <<"n", "o", " ", "f", "u", "l", "l", " ", "s", "t", "o", "p", " ",
      "i", "n", " ", "t", "h", "i", "s", " ", "a", "n", "s", "w", "e",
      "r">>

Responses ==
    {AnswerOk, AnswerWithDisclaimer, AnswerSymptoms, AnswerSentences,
     AnswerNoStop}

MaxLengths == {10, 40, 2000}

\* A call of ChatUtils.format_response.
FormatResponse ==
    /\ fnCalls < MaxFnCalls
    /\ \E response \in Responses, max_length \in MaxLengths,
          include_disclaimer \in BOOLEAN,
          domain \in {"general", "MEDICAL", "legal", "financial"} :
         fnCall' = [op |-> "format_response", response |-> response,
                    max_length |-> max_length,
                    include_disclaimer |-> include_disclaimer,
                    domain |-> domain,
                    out |-> format_response(response, max_length,
                                            include_disclaimer, domain)]
    /\ fnCalls' = fnCalls + 1
    /\ UNCHANGED <<apiVars, rcVars, vdbVars, uiVars>>

ExcerptLengths == {1, 2, 250, 300}

\* A call of RetrievalChain.format_response on a result of the chain.
FormatChainResult ==
    /\ fnCalls < MaxFnCalls
    /\ \E result \in {c \in ChainOutcomes : ~c.raised},
          content_excerpt_length \in ExcerptLengths,
          include_full_context \in BOOLEAN :
         fnCall' = [op |-> "RetrievalChain.format_response", result |-> result,
                    content_excerpt_length |-> content_excerpt_length,
                    out |-> RetrievalChain_format_response(
                               result, content_excerpt_length,
                               include_full_context)]
    /\ fnCalls' = fnCalls + 1
    /\ UNCHANGED <<apiVars, rcVars, vdbVars, uiVars>>

NextUtils ==
    FilterDocuments \/ GenerateDisclaimer \/ FormatResponse \/ FormatChainResult

--------------------------------------------------------------------------
Init == InitApi /\ InitRc /\ InitVdb /\ InitUi /\ InitFn

SpecApi == Init /\ [][NextApi]_vars

SpecRc == Init /\ [][NextRc]_vars

SpecVdb == Init /\ [][NextVdb]_vars

SpecUi == Init /\ [][NextUi]_vars

SpecCite == Init /\ [][NextCite]_vars

SpecUtils == Init /\ [][NextUtils]_vars

--------------------------------------------------------------------------
(* Properties of the conversation store (src/src/routes.py). *)

\* The list stored under key k, empty when there is none.
Stored(s, k) == IF k \in DOMAIN s THEN s[k] ELSE <<>>

StoreKeys == DOMAIN conversation_store

\* The entries that the save_history calls of `log` made under key k add up
\* to: one (user, bot) pair per call, in call order.
RECURSIVE TurnsOf(_, _)
TurnsOf(log, k) ==
    IF log = <<>> THEN <<>>
    ELSE TurnsOf(SubSeq(log, 1, Len(log) - 1), k)
         \o (IF log[Len(log)].conversation_id = Some(k)
             THEN <<[user |-> log[Len(log)].query],
                    [bot |-> log[Len(log)].answer]>>
             ELSE <<>>)

\* A history made of whole turns: even length, user and bot alternating.
WholeTurns(h) ==
    /\ Len(h) % 2 = 0
    /\ \A i \in 1..Len(h) :
         DOMAIN h[i] = (IF i % 2 = 1 THEN {"user"} ELSE {"bot"})

\* C2: the history stored for a conversation id is the concatenation, in call
\* order, of the (user query, bot answer) pairs of the save_history calls made
\* for that id (so earlier entries keep position and content), and it has even
\* length with user and bot entries alternating.  A call without an id (None
\* or the empty string) belongs to no conversation and stores nothing.
C2_HistoryAppendOnly ==
    /\ \A k \in StoreKeys \cup {"a", "b"} :
         /\ Stored(conversation_store, k) = TurnsOf(save_log, k)
         /\ WholeTurns(Stored(conversation_store, k))
    /\ "" \notin StoreKeys

\* C2 witness: a conversation that holds two turns, saved by two calls.
C2_Witness ==
    \E k \in StoreKeys :
        /\ Len(conversation_store[k]) = 4
        /\ conversation_store[k][1] # conversation_store[k][3]

\* C3: a chat request or save_history call for one conversation id leaves the
\* stored history of every other id as it was, and creates or removes no other
\* conversation.
C3_HistoriesIsolated ==
    [][\A k \in DOMAIN conversation_store \cup DOMAIN conversation_store' :
          (k \in DOMAIN conversation_store /\ apiCall'.conversation_id # Some(k))
             => /\ k \in DOMAIN conversation_store'
                /\ conversation_store'[k] = conversation_store[k]
                /\ get_history(conversation_store', Some(k))
                      = conversation_store[k]
      /\ \A n \in DOMAIN conversation_store' \ DOMAIN conversation_store :
            apiCall'.conversation_id = Some(n)]_vars

\* C3 witness: a call on conversation "a" has just appended while another
\* conversation holds a history of its own.
C3_Witness ==
    /\ apiCall.op \in {"chat", "save_history"}
    /\ apiCall.conversation_id = Some("a")
    /\ {"a", "b"} \subseteq StoreKeys
    /\ Len(conversation_store["a"]) >= 4
    /\ conversation_store["b"] # <<>>

\* The save_history calls made before the last chat request.
EarlierSaves ==
    SubSeq(save_log, 1, Len(save_log) - Len(apiCall.saves))

C5_FreshConversationId ==
    (/\ apiCall.op = "chat"
     /\ apiCall.conversation_id = None
     /\ ~apiCall.chain.raised
     /\ apiCall.chain.context_documents # None)
    => /\ apiResp.status = 200
       /\ ~Falsy(apiResp.conversation_id)
       /\ Len(apiResp.chat_history) >= 2
       /\ apiResp.chat_history[Len(apiResp.chat_history) - 1]
             = [user |-> apiCall.query]
       /\ apiResp.chat_history[Len(apiResp.chat_history)]
             = [bot |-> apiResp.answer]

--------------------------------------------------------------------------
(* Properties of the retriever set-up (src/src/retrieval_chain.py). *)

\* C8: get_retriever with search_type "similarity_score_threshold" and no
\* score_threshold raises a ValueError saying the threshold is required,
\* whatever k, filter_criteria and fetch_k are, and vectorstore.as_retriever is
\* not called: no retriever comes into being.
C8_ThresholdRequired ==
    [][(/\ rcCalls' # rcCalls
        /\ rcCall'.op = "get_retriever"
        /\ rcCall'.search_type = "similarity_score_threshold"
        /\ rcCall'.score_threshold = None)
       => /\ rcCall'.out.raised
          /\ rcCall'.out.error.type = "ValueError"
          /\ rcCall'.out.error.message.text
                = "score_threshold is required for similarity_score_threshold"
          /\ as_retriever_calls' = as_retriever_calls
          /\ retrievers' = retrievers]_vars

\* C8 witness: such a call made with a filter and a fetch_k, after an earlier
\* call has created a retriever.
C8_Witness ==
    /\ rcCall.op = "get_retriever"
    /\ rcCall.search_type = "similarity_score_threshold"
    /\ rcCall.score_threshold = None
    /\ rcCall.filter_criteria = Some([domain |-> "medical"])
    /\ rcCall.fetch_k = Some(10)
    /\ as_retriever_calls = 1

\* C9: a search_type outside {similarity, mmr, similarity_score_threshold} is
\* rejected with a ValueError whose message lists exactly these three names;
\* a search_type inside the set (with a score_threshold for the threshold
\* strategy) is accepted and the retriever returned has that search_type.
C9_StrategyValidated ==
    rcCall.op = "get_retriever" =>
        LET valid == {"similarity", "mmr", "similarity_score_threshold"}
        IN  /\ rcCall.search_type \notin valid =>
                 /\ rcCall.out.raised
                 /\ rcCall.out.error.type = "ValueError"
                 /\ Range(rcCall.out.error.message.listed) = valid
            /\ (/\ rcCall.search_type \in valid
                /\ (rcCall.search_type = "similarity_score_threshold"
                       => rcCall.score_threshold # None))
               => /\ ~rcCall.out.raised
                  /\ rcCall.out.value.search_type = rcCall.search_type
                  /\ retrievers # <<>>
                  /\ retrievers[Len(retrievers)] = rcCall.out.value

\* C9 witness: an accepted threshold retriever, created after a call with an
\* unknown strategy name was rejected.
C9_Witness ==
    /\ rcCall.op = "get_retriever"
    /\ rcCall.search_type = "similarity_score_threshold"
    /\ ~rcCall.out.raised
    /\ rcCalls = 2
    /\ Len(retrievers) = 1

\* C10: every mmr retriever that a retrieval chain queries has a candidate
\* pool at least as large as its result size: where fetch_k is set in its
\* search parameters, fetch_k >= k.
C10_MmrPoolCoversK ==
    \A c \in DOMAIN chains :
        LET r == retrievers[chains[c].retriever]
        IN  (/\ r.search_type = "mmr"
             /\ HasSearchKwargs(r)
             /\ "fetch_k" \in DOMAIN r.search_kwargs)
            => r.search_kwargs["fetch_k"] >= r.search_kwargs["k"]

--------------------------------------------------------------------------
(* Properties of VectorDB (src/src/vector_db.py). *)

\* C7: create_from_documents on an empty document list raises an error; no
\* vectorstore is returned and the disk is left as it was, whether save_dir
\* is given or not.
C7_EmptyCorpusRejected ==
    [][(/\ vdbCalls' # vdbCalls
        /\ vdbCall'.op = "create_from_documents"
        /\ vdbCall'.documents = <<>>)
       => /\ vdbCall'.out.raised
          /\ vdbCall'.out.error.type = "ValueError"
          /\ vectorstores' = vectorstores
          /\ disk' = disk]_vars

\* C7 witness: an empty build that names a save_dir which does not exist,
\* after an earlier build has persisted an index elsewhere.
C7_Witness ==
    /\ vdbCall.op = "create_from_documents"
    /\ vdbCall.documents = <<>>
    /\ vdbCall.save_dir = Some("d1")
    /\ "d2" \in DOMAIN disk
    /\ "d1" \notin DOMAIN disk


--------------------------------------------------------------------------
(* Properties of the Streamlit session (src/app.py) and of ingestion       *)
(* (src/src/doc_loader.py).                                                *)

\* C1: a query whose chain call fails commits nothing to the conversation
\* history: a chat request whose chain call raised leaves conversation_store
\* as it was, and a UI query whose chain call raised leaves the session's
\* history as it was.
C1_FailedQueryCommitsNothing ==
    [][/\ (/\ apiCalls' # apiCalls
           /\ apiCall'.op = "chat"
           /\ apiCall'.chain.raised)
          => conversation_store' = conversation_store
       /\ (/\ uiEvents' # uiEvents
           /\ uiEvent'.op = "query"
           /\ uiEvent'.invoked
           /\ uiEvent'.chain.raised)
          => session_state'.history = session_state.history]_vars

\* C6: ingestion failures are isolated per document: after a Process
\* Documents run during which nothing outside the loading of the documents
\* went wrong, every chunk of every uploaded document that load_document can
\* load is in the session's index, whatever happened to the other documents
\* of the batch.
C6_IngestionFailuresIsolated ==
    (uiEvent.op = "process" /\ uiEvent.build = "ok") =>
        LET uploaded_files == uiEvent.uploaded_files
            paths == temp_paths(uploaded_files)
            fs == TempDir(uploaded_files)
        IN  \A i \in DOMAIN paths :
              LET loaded == load_document(paths[i], fs)
              IN  ~loaded.raised =>
                     \A chunk \in Range(loaded.value) :
                        /\ session_state.vectorstore # None
                        /\ chunk \in Range(TheValue(session_state.vectorstore).documents)

--------------------------------------------------------------------------
(* Properties of the response text (src/src/utils.py, src/app.py). *)

DisclaimerTexts ==
    {DisclaimerAdvice, NoticeOptions, LegalNotice, FinancialDisclaimer,
     GeneralDisclaimer}

\* The number of disclaimers among the pieces appended to the answer.
AppendedDisclaimers(response) ==
    Cardinality({i \in 2..Len(response) : response[i] \in DisclaimerTexts})

\* C11: the disclaimer is not duplicated.  A response assembled by the UI's
\* generate_response has no disclaimer appended when the answer holds
\* "disclaimer" in any letter case, and exactly one otherwise; and
\* format_response, with its default length limit, returns an answer that
\* holds "disclaimer" as it is and any other answer followed by a blank line
\* and one disclaimer.
C11_DisclaimerNotDuplicated ==
    /\ (uiEvent.op = "query" /\ uiEvent.invoked /\ ~uiEvent.chain.raised) =>
          LET response == session_state.history[Len(session_state.history)][2]
              answer == response[1]
          IN  AppendedDisclaimers(response) =
                 (IF Contains(LowerText(answer), WordDisclaimer) THEN 0 ELSE 1)
    /\ \A answer \in {AnswerOk, AnswerWithDisclaimer, NoAnswer},
          domain \in {"general", "legal", "MEDICAL"} :
          LET formatted == format_response(answer, 2000, TRUE, domain)
          IN  IF Contains(LowerText(answer), WordDisclaimer)
              THEN formatted = answer
              ELSE \E disclaimer \in DisclaimerTexts :
                      formatted = answer \o <<"\n", "\n">> \o disclaimer

\* A piece of a UI response that is a list item "- x".
IsItem(piece) == Len(piece) = 2 /\ piece[1] = "- "

\* Where the heading stands in a UI response; past the end when it is absent.
HeadingAt(response, heading) ==
    IF \E i \in DOMAIN response : response[i] = heading
    THEN CHOOSE i \in DOMAIN response : response[i] = heading
    ELSE Len(response) + 1

\* The positions of the citations and of the excerpts in a UI response.
CitationsIn(response) ==
    {i \in DOMAIN response :
        IsItem(response[i]) /\ i < HeadingAt(response, ExcerptsHeading)}

ExcerptsIn(response) ==
    {i \in DOMAIN response :
        IsItem(response[i]) /\ i > HeadingAt(response, ExcerptsHeading)}

\* The response of the UI query that was just answered by the chain.
AnsweredQuery == uiEvent.op = "query" /\ uiEvent.invoked /\ ~uiEvent.chain.raised

LastResponse == session_state.history[Len(session_state.history)][2]

\* C12: whatever the number of retrieved chunks, a response lists at most
\* MAX_SOURCES_TO_CITE (3) citations and at most as many excerpts, both in
\* the answer of the chat API and in the response of the UI.
C12_CitationsCapped ==
    /\ apiResp.status = 200 =>
          /\ Len(apiResp.sources) <= MAX_SOURCES_TO_CITE
          /\ Len(apiResp.evidence) <= MAX_SOURCES_TO_CITE
    /\ AnsweredQuery =>
          /\ Cardinality(CitationsIn(LastResponse)) <= MAX_SOURCES_TO_CITE
          /\ Cardinality(ExcerptsIn(LastResponse)) <= MAX_SOURCES_TO_CITE

\* The elements of a finite set of numbers, in increasing order.
Ascending(S) ==
    [k \in 1..Cardinality(S) |->
        CHOOSE i \in S : Cardinality({j \in S : j <= i}) = k]

\* The citations and the excerpts a UI response lists, in the order listed.
CitationList(response) ==
    [k \in 1..Cardinality(CitationsIn(response)) |->
        response[Ascending(CitationsIn(response))[k]][2]]

ExcerptList(response) ==
    [k \in 1..Cardinality(ExcerptsIn(response)) |->
        response[Ascending(ExcerptsIn(response))[k]][2]]

\* The documents a chain result holds, under whichever key it holds them.
Retrieved(chain) ==
    IF chain.context # None THEN TheValue(chain.context)
    ELSE IF chain.context_documents # None THEN TheValue(chain.context_documents)
    ELSE <<>>

\* C13: the answer is traceable to its sources.  When the chain returned
\* n >= 1 retrieved chunks, the UI response lists, in retrieval order, the
\* formatted citation of each of the first min(n, 3) chunks and as many
\* excerpts, the i-th excerpt being the text of the i-th chunk, cut to 250
\* characters when longer; no citation is listed only when n = 0.
C13_AnswerTraceable ==
    AnsweredQuery =>
        LET docs == Retrieved(uiEvent.chain)
            n == IF Len(docs) < MAX_SOURCES_TO_CITE THEN Len(docs)
                 ELSE MAX_SOURCES_TO_CITE
            citations == CitationList(LastResponse)
            excerpts == ExcerptList(LastResponse)
        IN  /\ citations = [i \in 1..n |-> format_citation(docs[i].metadata).value]
            /\ Len(excerpts) = n
            /\ \A i \in 1..n :
                  IF Len(docs[i].page_content) <= 250
                  THEN excerpts[i] = docs[i].page_content
                  ELSE Take(excerpts[i], 40) = Take(docs[i].page_content, 40)

--------------------------------------------------------------------------
(* Properties of the citation formatter (src/src/citation.py). *)

\* The label a format family falls back to when its leading field is absent.
FallbackLabel(source_type) ==
    CASE lower(source_type) = "official_guideline" -> "Official Source"
      [] lower(source_type) = "research_article" -> "Anonymous"
      [] lower(source_type) = "educational_material" -> "Educational Material"
      [] lower(source_type) = "web_page" -> "Website"
      [] OTHER -> "Source"

\* C14: format_citation is total.  For every metadata mapping, its values
\* strings or numbers, the call returns a non-empty citation and does not
\* raise; a mapping that holds at most a source_type gives a citation with
\* the fallback label of its family ("Source" for the default family).
C14_FormatCitationTotal ==
    fnCall.op = "format_citation" =>
        /\ ~fnCall.out.raised
        /\ fnCall.out.value # <<>>
        /\ DOMAIN fnCall.doc_metadata \subseteq {"source_type"} =>
              FallbackLabel(DictGet(fnCall.doc_metadata, "source_type", ""))
                  \in Range(fnCall.out.value)

\* C15: the research article of the scenario (authors "Smith, J, Doe, A,
\* Lee, C", a title of seven words) is cited with "Smith, J et al.", the
\* first five words of the title followed by "...", "J. Med", "2021" and
\* "DOI:10.1/x".
C15_ResearchCitation ==
    (fnCall.op = "format_citation" /\ fnCall.doc_metadata = ResearchExample) =>
        /\ ~fnCall.out.raised
        /\ Contains(fnCall.out.value, <<"Smith", ",", " J", " et al.">>)
        /\ Contains(fnCall.out.value,
                    <<"Long", " ", "Title", " ", "Exceeding", " ", "Five", " ",
                      "Words", "...">>)
        /\ Contains(fnCall.out.value, <<"J. Med">>)
        /\ Contains(fnCall.out.value, <<"2021">>)
        /\ Contains(fnCall.out.value, <<" DOI:", "10.1/x">>)

--------------------------------------------------------------------------
(* Properties of ingestion and of the index on disk (src/src/doc_loader.py, *)
(* src/src/vector_db.py).                                                    *)

\* The source types the citation formatter has a family for, and "generic".
SourceTypeEnumeration ==
    {"official_guideline", "research_article", "educational_material",
     "web_page", "generic"}

\* C16: every chunk that ingestion produced, and that the session indexed,
\* carries a source_type, and it is one of official_guideline,
\* research_article, educational_material, web_page and generic.
C16_SourceTypeEnumerated ==
    session_state.vectorstore # None =>
        \A chunk \in Range(TheValue(session_state.vectorstore).documents) :
            /\ "source_type" \in DOMAIN chunk.metadata
            /\ chunk.metadata.source_type \in SourceTypeEnumeration


\* embed(model, text): the vector a model gives a text, here one integer;
\* the two models disagree on it.
embed(model, text) ==
    IF model = "sentence-transformers/all-mpnet-base-v2" THEN Len(text)
    ELSE 3 - Len(text)

\* The L2 distance of two one-dimensional vectors.
Distance(q, v) == IF q > v THEN q - v ELSE v - q

\* The documents at the positions from..Len(documents), inserted one by one
\* into the ranking by ascending distance to q (ties keep their order).
RECURSIVE RankFrom(_, _, _, _)
RankFrom(documents, model, q, from) ==
    IF from > Len(documents) THEN <<>>
    ELSE LET doc == documents[from]
             dist(x) == Distance(q, embed(model, x.page_content))
             rest == RankFrom(documents, model, q, from + 1)
             ahead == SelectSeq(rest, LAMBDA x : dist(x) < dist(doc))
             behind == SelectSeq(rest, LAMBDA x : ~(dist(x) < dist(doc)))
         IN  ahead \o <<doc>> \o behind

\* similarity_search_by_vector(q, k) on an index: its k nearest documents.
similarity_search_by_vector(index, q, k) ==
    Take(RankFrom(index.documents, index.vectors_of, q, 1), k)

QueryVectors == 0 .. 3

TopKs == 1 .. 2

\* The index the last save_vectorstore wrote to a directory.
LastSaved(dir) == dir.indexes[TheValue(dir.metadata).index_name]

\* C17: a load_vectorstore from a directory an index was saved to returns,
\* on whichever VectorDB instance it is called, an index that ranks the same
\* top-k chunks as the saved one for every query vector and k.
C17_RoundTripAnyInstance ==
    (/\ vdbCall.op = "load_vectorstore"
     /\ vdbCall.load_dir \in DOMAIN disk
     /\ disk[vdbCall.load_dir].metadata # None)
    => /\ ~vdbCall.out.raised
       /\ \A q \in QueryVectors, k \in TopKs :
            similarity_search_by_vector(vdbCall.out.value, q, k)
            = similarity_search_by_vector(LastSaved(disk[vdbCall.load_dir]), q, k)


\* C18: a load_vectorstore of a path that does not exist fails with the
\* not-found error, calls no deserializer and creates no directory; a load
\* of an existing path goes on to the deserializer.
C18_MissingPathNotFound ==
    vdbCall.op = "load_vectorstore" =>
        IF vdbCall.existed
        THEN /\ Len(vdbCall.load_local) = 1
             /\ vdbCall.load_local[1].folder_path = vdbCall.load_dir
        ELSE /\ vdbCall.out.raised
             /\ vdbCall.out.error.type = "FileNotFoundError"
             /\ vdbCall.load_local = <<>>
             /\ vdbCall.load_dir \notin DOMAIN disk

\* A load of a missing path was made after another directory was written.
C18_Witness ==
    /\ vdbCall.op = "load_vectorstore"
    /\ ~vdbCall.existed
    /\ vdbCall.out.raised
    /\ \E dir \in DOMAIN disk : disk[dir].metadata # None

--------------------------------------------------------------------------
(* Properties of the query paths on an empty retrieval (src/app.py,         *)
(* src/src/routes.py).                                                       *)

\* A chain result whose retrieval found no chunk: the completion service
\* answered, and the list of retrieved documents is there and empty.
ZeroChunks(chain) ==
    /\ ~chain.raised
    /\ chain.answer # None
    /\ chain.context # None \/ chain.context_documents # None
    /\ Retrieved(chain) = <<>>

\* C19: a query whose retrieval yields zero chunks is not an error.  The
\* chain is still invoked, and both the chat API and the UI return the
\* answer with no citation and no excerpt, not an error outcome.
C19_ZeroChunksNotAnError ==
    /\ (apiCall.op = "chat" /\ ZeroChunks(apiCall.chain)) =>
          /\ apiResp.status = 200
          /\ apiResp.answer = TheValue(apiCall.chain.answer)
          /\ apiResp.sources = <<>>
          /\ apiResp.evidence = <<>>
    /\ (uiEvent.op = "query" /\ uiEvent.invoked /\ ZeroChunks(uiEvent.chain)) =>
          /\ LastResponse[1] = TheValue(uiEvent.chain.answer)
          /\ CitationsIn(LastResponse) = {}
          /\ ExcerptsIn(LastResponse) = {}

--------------------------------------------------------------------------
(* Properties of the relevance gate (src/src/utils.py). *)

\* The number of distinct query terms that are words of the chunk text,
\* letter case set aside.
WholeWordMatches(doc, query) ==
    Cardinality(Range(SplitWords(LowerText(query)))
                \cap Range(SplitWords(LowerText(doc.page_content))))

\* C21: when no chunk carries a metadata score, the relevance gate keeps a
\* chunk exactly when the fraction of the distinct query terms that occur in
\* its text as whole words, letter case set aside, is at least min_score; a
\* term that occurs only inside a longer word does not count.
C21_WholeWordOverlap ==
    (/\ fnCall.op = "filter_documents_by_relevance"
     /\ \A i \in DOMAIN fnCall.docs : "score" \notin DOMAIN fnCall.docs[i].metadata)
    => \A i \in DOMAIN fnCall.docs :
          LET doc == fnCall.docs[i]
              terms == Cardinality(Range(SplitWords(LowerText(fnCall.query))))
          IN  doc \in Range(fnCall.out)
              <=> WholeWordMatches(doc, fnCall.query) * 100
                      >= fnCall.min_score * terms


\* The number of distinct query terms found anywhere in the chunk text.
FragmentMatches(doc, query) ==
    Cardinality({term \in Range(SplitWords(LowerText(query))) :
                    Contains(LowerText(doc.page_content), term)})

\* C25: the relevance gate decides each chunk by its own metadata score when
\* the chunk has one, whether or not the first chunk of the list has a
\* score: a chunk with a score >= min_score is kept and one with a score
\* < min_score is dropped.  Only a chunk without a score is judged by its
\* words: it is kept when its text holds every query term as a word, and,
\* for a min_score above zero, dropped when it holds no query term at all.
C25_ScorePerChunk ==
    fnCall.op = "filter_documents_by_relevance" =>
        \A i \in DOMAIN fnCall.docs :
            LET doc == fnCall.docs[i]
                terms == Cardinality(Range(SplitWords(LowerText(fnCall.query))))
            IN  IF "score" \in DOMAIN doc.metadata
                THEN doc \in Range(fnCall.out)
                     <=> doc.metadata.score >= fnCall.min_score
                ELSE /\ WholeWordMatches(doc, fnCall.query) = terms
                          => doc \in Range(fnCall.out)
                     /\ (FragmentMatches(doc, fnCall.query) = 0
                         /\ fnCall.min_score > 0)
                          => doc \notin Range(fnCall.out)

--------------------------------------------------------------------------
(* Properties of the disclaimer and of the formatted response               *)
(* (src/src/utils.py, src/app.py).                                           *)

\* A text mentions one of the terms, letter case set aside.
Mentions(text, terms) == \E term \in terms : Contains(LowerText(text), term)

\* What format_response added behind the response and a blank line.
AppendedTo(response, formatted) ==
    SubSeq(formatted, Len(response) + 3, Len(formatted))

\* C22: the disclaimer is selected from the query and the domain only.
\* Domain medical or health: the diagnosis wording for a query that mentions
\* diagnosis or symptoms, else the treatment wording for one that mentions
\* treatment, medication or therapy; legal and financial domains: their own
\* notice; every other pair: the generic educational disclaimer.  And two
\* answers formatted for the same domain get the same disclaimer, whatever
\* the answers say; the UI appends the generic one.
C22_DisclaimerFromQueryAndDomain ==
    /\ fnCall.op = "generate_disclaimer" =>
          fnCall.out =
             (CASE fnCall.domain \in {"medical", "MEDICAL", "health"}
                   /\ Mentions(fnCall.query, TermsDiagnosis) -> DisclaimerAdvice
                [] fnCall.domain \in {"medical", "MEDICAL", "health"}
                   /\ ~Mentions(fnCall.query, TermsDiagnosis)
                   /\ Mentions(fnCall.query, TermsTreatment) -> NoticeOptions
                [] fnCall.domain \in {"legal", "law"} -> LegalNotice
                [] fnCall.domain \in {"financial", "investment"} ->
                      FinancialDisclaimer
                [] OTHER -> GeneralDisclaimer)
    /\ (/\ fnCall.op = "format_response"
        /\ fnCall.include_disclaimer
        /\ fnCall.max_length = 2000
        /\ ~Mentions(fnCall.response, {WordDisclaimer}))
       => \A other \in Responses :
             ~Mentions(other, {WordDisclaimer}) =>
                AppendedTo(other, format_response(other, 2000, TRUE, fnCall.domain))
                = AppendedTo(fnCall.response, fnCall.out)
    /\ AnsweredQuery =>
          LastResponse[Len(LastResponse)] = GeneralDisclaimer


\* C30: format_response is idempotent for every response text, domain and
\* max_length: formatting its own output again returns that output (no
\* second disclaimer or notice, no further cut, no second truncation
\* marker), and the output is never longer than max_length plus the length
\* of the truncation marker.
C30_FormatResponseIdempotent ==
    fnCall.op = "format_response" =>
        /\ format_response(fnCall.out, fnCall.max_length,
                           fnCall.include_disclaimer, fnCall.domain)
           = fnCall.out
        /\ Len(fnCall.out) <= fnCall.max_length + Len(ResponseTruncated)

--------------------------------------------------------------------------
(* Properties of the excerpts (src/src/retrieval_chain.py,                   *)
(* src/src/routes.py, src/app.py).                                           *)

Ellipsis == <<".", ".", ".">>

EndsWithEllipsis(excerpt) ==
    Len(excerpt) >= 3 /\ SubSeq(excerpt, Len(excerpt) - 2, Len(excerpt)) = Ellipsis

\* The excerpt of a text cut at n characters, as the claim has it.
ExcerptOf(text, n) ==
    IF Len(text) > n THEN Take(text, n) \o Ellipsis ELSE text

\* C23: an excerpt is the first N characters of the chunk text, followed by
\* "..." exactly when the text is longer than N; a text of at most N
\* characters comes back without "...", and no excerpt is longer than N + 3.
\* So in RetrievalChain.format_response (N its content_excerpt_length), in
\* the answer of the chat API (N = 250) and in the response of the UI
\* (N = 250, white space normalised in a cut excerpt).
C23_ExcerptEllipsis ==
    /\ fnCall.op = "RetrievalChain.format_response" =>
          LET context == Retrieved([fnCall.result EXCEPT !.context_documents = None])
          IN  /\ Len(fnCall.out.sources) = Len(context)
              /\ \A i \in DOMAIN context :
                    fnCall.out.sources[i].content_excerpt
                    = ExcerptOf(context[i].page_content,
                                fnCall.content_excerpt_length)
    /\ apiResp.status = 200 =>
          LET docs == TheValue(apiCall.chain.context_documents)
          IN  \A i \in DOMAIN apiResp.evidence :
                 apiResp.evidence[i] = ExcerptOf(docs[i].page_content, 250)
    /\ AnsweredQuery =>
          LET docs == IF uiEvent.chain.context_documents = None THEN <<>>
                      ELSE TheValue(uiEvent.chain.context_documents)
              excerpts == ExcerptList(LastResponse)
          IN  \A i \in DOMAIN excerpts :
                 /\ Len(excerpts[i]) <= 250 + 3
                 /\ EndsWithEllipsis(excerpts[i]) <=> Len(docs[i].page_content) > 250
                 /\ Len(docs[i].page_content) <= 250 =>
                       excerpts[i] = docs[i].page_content

--------------------------------------------------------------------------
(* Properties of create_retrieval_chain (src/src/retrieval_chain.py). *)

\* C24: create_retrieval_chain(retriever, max_docs) sets the result size k
\* of a retriever that has search parameters to max_docs, whatever k
\* get_retriever was given, and leaves its other search parameters
\* (score_threshold, filter, fetch_k) and its search type as they were; a
\* retriever without search parameters, and every other retriever, is left
\* alone.
C24_ChainOverridesKOnly ==
    [][(rcCall'.op = "create_retrieval_chain" /\ rcCalls' # rcCalls) =>
          LET before == retrievers[rcCall'.retriever]
              after == retrievers'[rcCall'.retriever]
          IN  /\ DOMAIN retrievers' = DOMAIN retrievers
              /\ \A r \in DOMAIN retrievers \ {rcCall'.retriever} :
                    retrievers'[r] = retrievers[r]
              /\ IF HasSearchKwargs(before)
                 THEN /\ after.search_kwargs["k"] = rcCall'.max_docs
                      /\ DOMAIN after.search_kwargs
                         = DOMAIN before.search_kwargs \cup {"k"}
                      /\ \A kw \in DOMAIN before.search_kwargs \ {"k"} :
                            after.search_kwargs[kw] = before.search_kwargs[kw]
                      /\ after.search_type = before.search_type
                      /\ DOMAIN after = DOMAIN before
                 ELSE after = before]_vars

\* A chain was created on an mmr retriever with filter and fetch_k, with a
\* max_docs that differs from every k get_retriever was given.
C24_Witness ==
    /\ rcCall.op = "create_retrieval_chain"
    /\ rcCall.max_docs \notin KValues
    /\ LET r == retrievers[rcCall.retriever]
       IN  /\ HasSearchKwargs(r)
           /\ r.search_type = "mmr"
           /\ {"filter", "fetch_k"} \subseteq DOMAIN r.search_kwargs
           /\ r.search_kwargs["k"] = rcCall.max_docs

--------------------------------------------------------------------------
(* Properties of the UI session (src/app.py). *)

\* A run of the script in which a query was submitted, Process Documents
\* pressed, Clear Chat pressed.
QueryStep == uiEvents' # uiEvents /\ uiEvent'.op = "query"

ProcessStep == uiEvents' # uiEvents /\ uiEvent'.op = "process"

ClearStep == uiEvents' # uiEvents /\ uiEvent'.op = "clear"

\* C26: the retrieval chain is never invoked before a Process Documents run
\* has succeeded.  A session starts with docs_processed false; only a
\* successful Process Documents run makes it true; a query submitted while
\* it is false is answered with the upload-first warning and the chain is
\* not called; the chain is called only while it is true.
C26_NoQueryBeforeBuild ==
    /\ [](uiEvents = 0 => ~session_state.docs_processed)
    /\ [][/\ (~session_state.docs_processed /\ session_state'.docs_processed)
                => (ProcessStep /\ uiEvent'.shown[1] = "success")
          /\ QueryStep =>
                /\ uiEvent'.invoked <=> session_state.docs_processed
                /\ Len(session_state'.history) = Len(session_state.history) + 1
                /\ ~session_state.docs_processed =>
                      session_state'.history[Len(session_state'.history)][2]
                      = WarningUploadFirst]_vars

\* A query got the warning, the documents were then processed, and a later
\* query reached the chain.
C26_Witness ==
    /\ uiEvent.op = "query"
    /\ uiEvent.invoked
    /\ ~uiEvent.chain.raised
    /\ Len(session_state.history) >= 2
    /\ session_state.history[1][2] = WarningUploadFirst
    /\ LastResponse # WarningUploadFirst

\* C27: in every state of the session, docs_processed is true only if
\* vectorstore and retrieval_chain are both set and the chain retrieves
\* from the stored vectorstore; the two are replaced together.
C27_IndexAndChainTogether ==
    /\ [](session_state.docs_processed =>
            /\ session_state.vectorstore # None
            /\ session_state.retrieval_chain # None
            /\ TheValue(session_state.retrieval_chain).retriever.vectorstore
               = TheValue(session_state.vectorstore))
    /\ []((session_state.vectorstore = None) <=> (session_state.retrieval_chain = None))
    /\ [][(session_state'.vectorstore # session_state.vectorstore)
          <=> (session_state'.retrieval_chain # session_state.retrieval_chain)]_vars

\* The index was replaced by a second successful Process Documents run.
C27_Witness ==
    /\ uiEvent.op = "process"
    /\ uiEvent.shown[1] = "success"
    /\ uiEvent.uploaded_files = <<RowsCsv, DataJson>>
    /\ session_state.docs_processed
    /\ Len(session_state.history) = 1
    /\ session_state.history[1][2] # WarningUploadFirst

\* C28: a Process Documents run that fails leaves vectorstore,
\* retrieval_chain, docs_processed and history as they were; and a run
\* fails on an unsupported file type, on files that give no chunk at all,
\* and on an error while the embedding model or the chain is set up.
C28_FailedBuildKeepsIndex ==
    [][ProcessStep =>
          /\ uiEvent'.shown[1] # "success" => session_state' = session_state
          /\ (\/ \E i \in DOMAIN uiEvent'.uploaded_files :
                    uiEvent'.uploaded_files[i] = ArchiveXyz
              \/ uiEvent'.uploaded_files = <<BlankTxt>>
              \/ uiEvent'.uploaded_files = <<>>
              \/ uiEvent'.build # "ok")
             => uiEvent'.shown[1] # "success"]_vars

\* A build failed in a session whose index had answered a query before.
C28_Witness ==
    /\ uiEvent.op = "process"
    /\ uiEvent.shown[1] = "error"
    /\ session_state.docs_processed
    /\ session_state.vectorstore # None
    /\ Len(session_state.history) = 1
    /\ session_state.history[1][2] # WarningUploadFirst

\* C29: Clear Chat empties the history and changes nothing else of the
\* session; the query that follows a clear is sent to the chain with an
\* empty chat_history, whatever was asked before.
C29_ClearChatOnlyHistory ==
    [][/\ ClearStep =>
             session_state' = [session_state EXCEPT !.history = <<>>]
       /\ (QueryStep /\ uiEvent.op = "clear" /\ uiEvent'.invoked)
             => uiEvent'.chat_history = <<>>
       /\ (QueryStep /\ uiEvent'.invoked)
             => uiEvent'.chat_history = session_state.history]_vars

\* A history with a turn in it was cleared while an index was there.
C29_Witness ==
    /\ uiEvent.op = "clear"
    /\ uiEvent.cleared > 0
    /\ session_state.history = <<>>
    /\ session_state.docs_processed
    /\ session_state.retrieval_chain # None

====
